---- MODULE Spec2Model ----
(***************************************************************************)
(* Model of the photobooth receipt printer (src/main.py).                  *)
(*                                                                         *)
(* Part 1: the exposure estimator of ImageProcessor,                       *)
(*   calculate_brightness_from_region  (src/main.py:554-592)               *)
(*   calculate_auto_brightness         (src/main.py:594-679)               *)
(*                                                                         *)
(* Numbers.  Pixel values, indices and box coordinates are integers.       *)
(* Gains and averages are Python floats; they are modelled as exact        *)
(* rationals <<num, den>> with den > 0 and compared by cross               *)
(* multiplication.  None is the empty tuple <<>>, a present value v is a   *)
(* non-empty tuple.                                                        *)
(***************************************************************************)
EXTENDS Integers, Sequences, FiniteSets, TLC

\* ------------------------------------------------------------------ bounds
\* Largest number of pixels (width * height) of an analysed image.
MaxPixels == 4
\* Largest number of rectangles the face detector returns for one image.
MaxFaces == 2
\* Longest sample row of every length; the outlier filter acts from 20 on.
MaxSamples == 21
\* Longest sample row of the lengths for which the float index falls short.
MaxBigSample == 50
\* Most pixels of value 0, and of value 255, in a sample row.
MaxOutliers == 2
\* Most pixels of an image in a sequence of calls.
MaxCallPixels == 2
\* Last second of the clock, and most touches, of the touchscreen handler.
MaxTime == 3
MaxTouches == 2

\* Config.LONG_PRESS_DURATION, in seconds.
LONG_PRESS_DURATION == 2

\* Grey levels an image of the model is made of (black, mid, bright).
PixelVals == {0, 100, 200}

\* ------------------------------------------------------- Python arithmetic
Min2(a, b) == IF a <= b THEN a ELSE b
Max2(a, b) == IF a >= b THEN a ELSE b

\* int(n / d) for d > 0: truncation toward zero.
IntTrunc(n, d) == IF n >= 0 THEN n \div d ELSE -((-n) \div d)

\* Rationals <<num, den>>, den > 0.
RatLe(a, b) == a[1] * b[2] <= b[1] * a[2]
RatEq(a, b) == a[1] * b[2] = b[1] * a[2]
RatLt(a, b) == a[1] * b[2] < b[1] * a[2]
\* Python min(a, b) / max(a, b): the first argument wins a tie.
RatMin(a, b) == IF RatLt(b, a) THEN b ELSE a
RatMax(a, b) == IF RatLt(a, b) THEN b ELSE a

\* sorted(list)
RECURSIVE SortedInsert(_, _)
SortedInsert(v, s) ==
    IF s = <<>> THEN <<v>>
    ELSE IF v <= Head(s) THEN <<v>> \o s
    ELSE <<Head(s)>> \o SortedInsert(v, Tail(s))

RECURSIVE sorted(_)
sorted(s) == IF s = <<>> THEN <<>> ELSE SortedInsert(Head(s), sorted(Tail(s)))

\* Variant of Between with strict comparisons.
Between_Strict(pixels, lo, hi) == SelectSeq(pixels, LAMBDA p : lo < p /\ p < hi)

\* [p for p in pixels if lo <= p <= hi]
Between(pixels, lo, hi) == SelectSeq(pixels, LAMBDA p : lo <= p /\ p <= hi)

\* sum(list)
RECURSIVE sum(_)
sum(s) == IF s = <<>> THEN 0 ELSE Head(s) + sum(Tail(s))

\* The pairs <<n, pct>> with n <= 200 and pct in 0..100 for which the double
\* product n * (pct / 100.0) falls just below the integer n * pct / 100, so
\* that int() truncates to one less (50 * 0.58 = 28.999999999999996).
FloatShort ==
    { <<50, 58>>, <<90, 70>>, <<100, 29>>, <<100, 57>>, <<100, 58>>,
      <<150, 82>>, <<170, 70>>, <<180, 35>>, <<180, 70>>, <<200, 29>>,
      <<200, 57>>, <<200, 58>> }

\* int(n * (pct / 100.0)), also int(n * 0.05) and int(n * 0.95) with pct = 5
\* and 95: floor(n * pct / 100), less one for the pairs of FloatShort.
PercentileIndex(n, pct) ==
    ((n * pct) \div 100) - (IF <<n, pct>> \in FloatShort THEN 1 ELSE 0)

\* ------------------------------------------------------------------ images
\* A grayscale ('L') image: size and pixels in row-major order (getdata()).
ImageSizes == {wh \in (1..MaxPixels) \X (1..MaxPixels) : wh[1] * wh[2] <= MaxPixels}

Images ==
    UNION {{[w |-> wh[1], h |-> wh[2], px |-> p] :
              p \in [1..(wh[1] * wh[2]) -> PixelVals]} : wh \in ImageSizes}

\* list(gray.crop((left, top, right, bottom)).getdata()) for a box with
\* left <= right and top <= bottom: the pixels of the box in row-major order;
\* PIL fills the part of a box that lies outside the image with 0.
CropPixels(gray, box) ==
    LET bw == box[3] - box[1]
        bh == box[4] - box[2]
    IN  IF bw <= 0 \/ bh <= 0 THEN <<>>
        ELSE [k \in 1..(bw * bh) |->
                LET x == box[1] + ((k - 1) % bw)
                    y == box[2] + ((k - 1) \div bw)
                IN  IF x >= 0 /\ x < gray.w /\ y >= 0 /\ y < gray.h
                    THEN gray.px[y * gray.w + x + 1]
                    ELSE 0]

\* Python list indexing s[i]: <<value>>, or <<>> when it raises IndexError.
PyIndex(s, i) ==
    IF i >= 0 /\ i < Len(s) THEN <<s[i + 1]>>
    ELSE IF i < 0 /\ -i <= Len(s) THEN <<s[Len(s) + i + 1]>>
    ELSE <<>>

\* ------------------------------------- calculate_brightness_from_region
\* Variant of ClampRegion that forgets to limit the width to the image.
ClampRegion_NoWidthClamp(gray, region) ==
    LET x == Max2(0, Min2(region[1], gray.w - 1))
        y == Max2(0, Min2(region[2], gray.h - 1))
        w == region[3]
        h == Min2(region[4], gray.h - y)
    IN  <<x, y, w, h>>

\* Lines 559-565: the region <<x, y, w, h>> after "ensure coordinates are
\* within image bounds".
ClampRegion(gray, region) ==
    LET x == Max2(0, Min2(region[1], gray.w - 1))
        y == Max2(0, Min2(region[2], gray.h - 1))
        w == Min2(region[3], gray.w - x)
        h == Min2(region[4], gray.h - y)
    IN  <<x, y, w, h>>

\* Lines 567-571: the box handed to crop, <<>> when the region is skipped.
RegionBox(gray, region) ==
    LET c == ClampRegion(gray, region)
    IN  IF c[3] <= 0 \/ c[4] <= 0 THEN <<>>
        ELSE <<c[1], c[2], c[1] + c[3], c[2] + c[4]>>

\* Variant of RegionFilter with the two thresholds exchanged.
RegionFilter_ThresholdsSwapped(pixels) ==
    LET sorted_pixels == sorted(pixels)
        n == Len(sorted_pixels)
        p5_idx == PercentileIndex(n, 5)
        p95_idx == PercentileIndex(n, 95)
        p5 == IF p5_idx < n THEN sorted_pixels[p5_idx + 1] ELSE sorted_pixels[1]
        p95 == IF p95_idx < n THEN sorted_pixels[p95_idx + 1] ELSE sorted_pixels[n]
    IN  Between(pixels, p95, p5)

\* Variant of RegionFilter that keeps every sample.
RegionFilter_KeepsAll(pixels) == pixels

\* Lines 577-583: the outlier filter of a non-empty pixel list.
RegionFilter(pixels) ==
    LET sorted_pixels == sorted(pixels)
        n == Len(sorted_pixels)
        p5_idx == PercentileIndex(n, 5)
        p95_idx == PercentileIndex(n, 95)
        p5 == IF p5_idx < n THEN sorted_pixels[p5_idx + 1] ELSE sorted_pixels[1]
        p95 == IF p95_idx < n THEN sorted_pixels[p95_idx + 1] ELSE sorted_pixels[n]
    IN  Between(pixels, p5, p95)

\* Lines 585-589: fall back to the unfiltered list, then sort.
RegionSortedFiltered(pixels) ==
    LET filtered == RegionFilter(pixels)
    IN  sorted(IF Len(filtered) = 0 THEN pixels ELSE filtered)

\* Lines 577-592: outlier filter and percentile of a non-empty pixel list.
RegionPercentile(pixels, percentile) ==
    LET sorted_filtered == RegionSortedFiltered(pixels)
        percentile_index ==
            Min2(PercentileIndex(Len(sorted_filtered), percentile),
                 Len(sorted_filtered) - 1)
    IN  PyIndex(sorted_filtered, percentile_index)

\* Lines 567-573: the pixel list of the cropped region, <<>> when the method
\* returns None before the filter.
RegionPixels(gray, region) ==
    LET box == RegionBox(gray, region)
    IN  IF box = <<>> THEN <<>> ELSE CropPixels(gray, box)

\* Variant of calculate_brightness_from_region that answers 0, not None, for
\* a skipped region.
calculate_brightness_from_region_ZeroForSkipped(gray, region, percentile) ==
    LET box == RegionBox(gray, region)
    IN  IF box = <<>> THEN <<0>>
        ELSE LET pixels == CropPixels(gray, box)
             IN  IF Len(pixels) = 0 THEN <<0>>
                 ELSE RegionPercentile(pixels, percentile)

\* The whole method: <<value>>, or <<>> for None.
calculate_brightness_from_region(gray, region, percentile) ==
    LET box == RegionBox(gray, region)
    IN  IF box = <<>> THEN <<>>
        ELSE LET pixels == CropPixels(gray, box)
             IN  IF Len(pixels) = 0 THEN <<>>
                 ELSE RegionPercentile(pixels, percentile)

\* ------------------------------------ calculate_auto_brightness, pieces
\* Variant of CenterBox that passes the box size where crop expects the
\* right and lower coordinate.
CenterBox_SizeForCorner(gray, center_weight) ==
    LET cn == center_weight[1]
        cd == center_weight[2]
        center_margin_x == IntTrunc(gray.w * (cd - cn), 2 * cd)
        center_margin_y == IntTrunc(gray.h * (cd - cn), 2 * cd)
    IN  <<center_margin_x, center_margin_y,
          gray.w - 2 * center_margin_x, gray.h - 2 * center_margin_y>>

\* Lines 633-640: center_box for center_weight = <<num, den>> in [0, 1];
\* the margin is int(size * (1 - center_weight) / 2).
CenterBox(gray, center_weight) ==
    LET cn == center_weight[1]
        cd == center_weight[2]
        center_margin_x == IntTrunc(gray.w * (cd - cn), 2 * cd)
        center_margin_y == IntTrunc(gray.h * (cd - cn), 2 * cd)
    IN  <<center_margin_x, center_margin_y,
          gray.w - center_margin_x, gray.h - center_margin_y>>

\* Lines 646-653: the inline outlier filter of the center pixels.
CenterFilter(center_pixels) ==
    LET n == Len(center_pixels)
        sorted_pixels == sorted(center_pixels)
    IN  IF n > 0
        THEN LET p5 == sorted_pixels[PercentileIndex(n, 5) + 1]
                 p95 == sorted_pixels[PercentileIndex(n, 95) + 1]
             IN  Between(center_pixels, p5, p95)
        ELSE center_pixels

\* Lines 655-659: fall back to the unfiltered list, then sort.
CenterSortedFiltered(center_pixels) ==
    LET filtered == CenterFilter(center_pixels)
    IN  sorted(IF Len(filtered) = 0 THEN center_pixels ELSE filtered)

\* Variant of CenterPercentile without min(percentile_index, len - 1).
CenterPercentile_NoIndexClamp(center_pixels, percentile) ==
    LET sorted_filtered == CenterSortedFiltered(center_pixels)
    IN  PyIndex(sorted_filtered, PercentileIndex(Len(sorted_filtered), percentile))

\* Variant of CenterPercentile that takes the median whatever the percentile.
CenterPercentile_Median(center_pixels, percentile) ==
    LET sorted_filtered == CenterSortedFiltered(center_pixels)
    IN  PyIndex(sorted_filtered,
                Min2(PercentileIndex(Len(sorted_filtered), 50),
                     Len(sorted_filtered) - 1))

\* Lines 647-662: the inline filter and percentile of the center pixels:
\* <<value>>, or <<>> when the final indexing raises IndexError.
CenterPercentile(center_pixels, percentile) ==
    LET sorted_filtered == CenterSortedFiltered(center_pixels)
        percentile_index ==
            Min2(PercentileIndex(Len(sorted_filtered), percentile),
                 Len(sorted_filtered) - 1)
    IN  PyIndex(sorted_filtered, percentile_index)

\* Lines 669-672: the unclamped factor for subject brightness <<sum, count>>.
FallbackFactor == <<2, 1>>

\* Variant of RawFactor dividing the wrong way round.
RawFactor_Inverted(target_brightness, subject) ==
    IF subject[1] > 0 THEN <<subject[1], target_brightness * subject[2]>>
    ELSE FallbackFactor

\* Variant of RawFactor whose fallback is derived from the target.
RawFactor_TargetFallback(target_brightness, subject) ==
    IF subject[1] > 0 THEN <<target_brightness * subject[2], subject[1]>>
    ELSE <<target_brightness, 100>>

RawFactor(target_brightness, subject) ==
    IF subject[1] > 0 THEN <<target_brightness * subject[2], subject[1]>>
    ELSE FallbackFactor

\* Variant of ClampFactor without the lower bound.
ClampFactor_NoLowerBound(brightness_min, brightness_max, factor) ==
    RatMin(brightness_max, factor)

\* Line 675: max(brightness_min, min(brightness_max, factor)).
ClampFactor(brightness_min, brightness_max, factor) ==
    RatMax(brightness_min, RatMin(brightness_max, factor))

\* ------------------------------------------------------------ configuration
\* ImageProcessor fields read by the estimator (src/main.py:387-392).
\* target 200 with bounds 0.5..3.0 is the documented example; target 40 puts
\* factors below brightness_min; the third pair of bounds is inverted.
Targets == {40, 200}
BrightnessBounds ==
    { << <<1, 2>>, <<3, 1>> >>, << <<1, 2>>, <<3, 2>> >>, << <<3, 1>>, <<1, 2>> >> }
\* 0, Config.BRIGHTNESS_CENTER_WEIGHT (0.00001) and 1.
CenterWeights == { <<0, 1>>, <<1, 100000>>, <<1, 1>> }
\* 0, Config.BRIGHTNESS_PERCENTILE, the constructor default, 100.
Percentiles == {0, 30, 75, 100}

MkConfig(t, b, c, p, f) ==
    [target_brightness |-> t, brightness_min |-> b[1], brightness_max |-> b[2],
     center_weight |-> c, percentile |-> p, use_face_detection |-> f]

\* Processors without face detection: every combination of the settings.
CenterConfigs ==
    {MkConfig(t, b, c, p, FALSE) :
        t \in Targets, b \in BrightnessBounds, c \in CenterWeights, p \in Percentiles}

\* Processors with face detection (cascade loaded).
FaceConfigs ==
    {MkConfig(t, << <<1, 2>>, <<3, 1>> >>, <<0, 1>>, p, TRUE) :
        t \in Targets, p \in {30, 100}}

Configs == CenterConfigs \cup FaceConfigs

\* Rectangles the face detector reports in calculate_auto_brightness: the
\* whole image, its first and last pixel, one beyond the right edge, one with
\* negative origin, one of zero width, one of negative height.
Regions(gray) ==
    { <<0, 0, gray.w, gray.h>>, <<0, 0, 1, 1>>, <<gray.w - 1, gray.h - 1, 1, 1>>,
      <<gray.w, 0, 1, 1>>, <<-1, -1, 2, 2>>,
      <<0, 0, 0, gray.h>>, <<0, 0, gray.w, -1>> }

\* All rectangles of integers around an image, for direct calls of
\* calculate_brightness_from_region: origins from one before the image to
\* one past it, sizes from negative to oversized.
AllRegions(gray) ==
    ((-1)..gray.w) \X ((-1)..gray.h) \X ((-1)..(gray.w + 1)) \X ((-1)..(gray.h + 1))

\* The processor of the direct calls: constructor defaults for centre weight
\* and percentile (src/main.py:380).
RegionConfigs == {MkConfig(200, << <<1, 2>>, <<3, 1>> >>, <<7, 10>>, 75, TRUE)}

\* One-row images for the statistics of the samples: k255 pixels of 255,
\* then k0 of 0, k100 of 100 and k200 of 200.
Rep(v, k) == [i \in 1..k |-> v]

SampleRow(k0, k100, k200, k255) ==
    [w |-> k0 + k100 + k200 + k255, h |-> 1,
     px |-> Rep(255, k255) \o Rep(0, k0) \o Rep(100, k100) \o Rep(200, k200)]

\* Row lengths: all up to MaxSamples, and the lengths of FloatShort up to
\* MaxBigSample.
SampleSizes ==
    (1..MaxSamples) \cup {q[1] : q \in {r \in FloatShort : r[1] <= MaxBigSample}}

SampleImages ==
    UNION {{SampleRow(k[1], n - k[1] - k[2] - k[3], k[2], k[3]) :
              k \in {c \in (0..MaxOutliers) \X (0..n) \X (0..MaxOutliers) :
                        c[1] + c[2] + c[3] <= n}}
           : n \in SampleSizes}

\* Processors for the sample rows: the centre box is the whole image
\* (center_weight 1); percentile 58 is one of FloatShort.
SamplePercentiles == {0, 30, 58, 100}
SampleConfigs ==
    {MkConfig(200, << <<1, 2>>, <<3, 1>> >>, <<1, 1>>, p, FALSE) :
        p \in SamplePercentiles}

\* --------------------------------------------------- configuration files
\* Names a configuration module may define: two store keys, a setting with a
\* default, an upper-case name class Config does not have, a lower-case
\* name, and an upper-case name with a leading underscore.
ConfigNames ==
    {"STORE_NAME", "FOOTER_MESSAGE", "TARGET_BRIGHTNESS", "NEW_SETTING",
     "store_name", "_PRIVATE"}

\* name.isupper() and name.startswith("_") for the names of ConfigNames.
IsUpper(name) ==
    name \in {"STORE_NAME", "FOOTER_MESSAGE", "TARGET_BRIGHTNESS", "NEW_SETTING",
              "_PRIVATE"}
StartsWithUnderscore(name) == name \in {"_PRIVATE"}

\* Lines 75-80 and 84-91: the store keys and their fallback strings.
StoreKeys == {"STORE_NAME", "FOOTER_MESSAGE"}
STORE_DEFAULTS == [key \in StoreKeys |-> "store default"]

\* Lines 41-80: the class attributes; "None" stands for None.
ConfigDefaults ==
    [name \in StoreKeys \cup {"TARGET_BRIGHTNESS"} |->
        IF name \in StoreKeys THEN "None" ELSE "class default"]

\* The modules a file can be: a function from the names it defines to their
\* values; a store key or a setting of class Config may be set to None.
Modules(value) ==
    {m \in UNION {[names -> {value, "None"}] : names \in SUBSET ConfigNames} :
        \A name \in DOMAIN m : m[name] = "None" => name \in DOMAIN ConfigDefaults}

\* Variant of ApplyModule without the hasattr test.
ApplyModule_NoHasattr(config, module) ==
    LET applied == {name \in DOMAIN module :
                       IsUpper(name) /\ ~StartsWithUnderscore(name)}
    IN  [name \in DOMAIN config \cup applied |->
            IF name \in applied THEN module[name] ELSE config[name]]

\* Lines 99-102 and 108-111: setattr for every name of the module that is
\* upper-case, has no leading underscore and is an attribute of Config.
ApplyModule(config, module) ==
    LET applied == {name \in DOMAIN module :
                       /\ IsUpper(name) /\ ~StartsWithUnderscore(name)
                       /\ name \in DOMAIN config}
    IN  [name \in DOMAIN config \cup applied |->
            IF name \in applied THEN module[name] ELSE config[name]]

\* Variant of EnsureStoreKeys that fills nothing in.
EnsureStoreKeys_SkipsAll(config) == config

\* Lines 114-116: store keys that are None (or missing) get their fallback.
EnsureStoreKeys(config) ==
    [name \in DOMAIN config \cup StoreKeys |->
        IF name \in StoreKeys /\ (name \notin DOMAIN config \/ config[name] = "None")
        THEN STORE_DEFAULTS[name]
        ELSE config[name]]

\* ------------------------------------------------------------------- state
VARIABLES
    self,               \* the ImageProcessor's fields
    face_cascade,       \* self._face_cascade: "None", "empty" or "loaded"
    detect_call,        \* the latest call of detect_faces, <<>> before it
    gray,               \* the image under analysis
    pc,                 \* position in calculate_auto_brightness
    n_faces,            \* len(faces)
    face_i,             \* number of face regions the loop has consumed
    face_region,        \* loop variable of line 619, <<>> before the loop
    crop_box,           \* box cropped for face_region, <<>> if none
    brightness,         \* line 620: <<value>> or <<>> for None
    face_brightnesses,  \* line 618
    center_box,         \* line 635, <<>> while unset
    subject_brightness, \* <<>> for None, else the rational <<sum, count>>
    method_used,        \* line 610
    brightness_factor,  \* the returned gain, <<>> before the return
    raised,             \* exception that left the call, "" if none
    filtered_pixels,    \* lines 583/651: what the outlier filter kept
    sorted_filtered,    \* lines 589/659: the list the percentile is read from
    first_call,         \* the processor's first single-region call, <<>> if none
    \* TouchscreenHandler (src/main.py:127-256)
    touch_detected,      \* line 131
    touch_down,          \* self._touch_down, line 132
    touch_start_time,    \* self._touch_start_time: <<>> for None, else <<time>>
    long_press_detected, \* self._long_press_detected, line 139
    now,                 \* time.time(), in whole seconds
    finger,              \* "down" after a touch-down event was read, else "up"
    monitor_pc,          \* position of the event-monitor thread
    monitor_duration,    \* local duration of line 196, <<>> while unset
    longpress_pc,        \* position of the long-press check thread
    longpress_duration,  \* local duration of line 168, <<>> while unset
    touches,             \* number of touches the monitor has taken up
    start_touch,         \* the touch whose start time is in touch_start_time
    longpress_touch,     \* the touch whose start time line 168 read
    printed,             \* touches for which line 200 ran, with their duration
    long_detected,       \* touches during which line 171 ran for them
    taps,                \* per touch: the time line 190 stamped, and the
                         \* duration when the touch-up was handled, <<>> before
    \* Config and _load_local_config (src/main.py:41-120)
    Config,              \* the attributes of class Config
    example_cfg,         \* config_example as imported: <<>> if missing
    local_config,        \* local_config as imported: <<>> if missing
    load_pc,             \* position in _load_local_config
    paper,               \* the commands the printer has received, in order
    receipt_step,        \* print_receipt: 0 outside, 1..5 next part, 6 returned
    receipts,            \* number of calls of print_receipt so far
    image_path,          \* argument of the current call of print_receipt
    printer_raised,      \* an exception left print_receipt
    files,               \* the file system: name -> <<content>>, <<>> if absent
    originals,           \* the file system when the sample tool started
    sample_paths,        \* print_sample_images: the selected paths still to do
    tool_pc,             \* position in main() of print_sample_images
    tmp                  \* the temporary file of the current sample

estimatorVars ==
    <<self, face_cascade, detect_call, gray, pc, n_faces, face_i, face_region, crop_box, brightness,
      face_brightnesses, center_box, subject_brightness, method_used,
      brightness_factor, raised, filtered_pixels, sorted_filtered, first_call>>

touchVars ==
    <<touch_detected, touch_down, touch_start_time, long_press_detected, now,
      finger, monitor_pc, monitor_duration, longpress_pc, longpress_duration,
      touches, start_touch, longpress_touch, printed, long_detected, taps>>

configVars == <<Config, example_cfg, local_config, load_pc>>

printerVars == <<paper, receipt_step, receipts, image_path, printer_raised>>

toolVars == <<files, originals, sample_paths, tool_pc, tmp>>

vars == <<estimatorVars, touchVars, configVars, printerVars, toolVars>>

\* TouchscreenHandler.__init__ (lines 130-139), both threads about to start.
TouchInit ==
    /\ touch_detected = FALSE
    /\ touch_down = FALSE
    /\ touch_start_time = <<>>
    /\ long_press_detected = FALSE
    /\ now = 0
    /\ finger = "up"
    /\ monitor_pc = "read_event"
    /\ monitor_duration = <<>>
    /\ longpress_pc = "line166"
    /\ longpress_duration = <<>>
    /\ touches = 0
    /\ start_touch = 0
    /\ longpress_touch = 0
    /\ printed = {}
    /\ long_detected = {}
    /\ taps = <<>>

\* ReceiptPrinter.__init__ (lines 723-724): nothing sent to the printer yet.
PrinterInit ==
    /\ paper = <<>>
    /\ receipt_step = 0
    /\ receipts = 0
    /\ image_path = ""
    /\ printer_raised = FALSE

\* The sample tool not running, no files.
ToolInit ==
    /\ files = <<>>
    /\ originals = <<>>
    /\ sample_paths = <<>>
    /\ tool_pc = "off"
    /\ tmp = ""

\* The attributes of class Config as the class statement leaves them.
ConfigInit ==
    /\ Config = ConfigDefaults
    /\ example_cfg = <<>>
    /\ local_config = <<>>
    /\ load_pc = "start"

\* Lines 392-410: what __init__ leaves in use_face_detection and
\* _face_cascade for the requested flag, the availability of OpenCV and the
\* outcome of loading the Haar cascade ("loaded", "empty", "raises").
ImageProcessor_init(use_face_detection, OPENCV_AVAILABLE, cascade) ==
    IF use_face_detection /\ OPENCV_AVAILABLE
    THEN CASE cascade = "loaded" ->
                [use_face_detection |-> TRUE, face_cascade |-> "loaded"]
           [] cascade = "empty" ->
                [use_face_detection |-> FALSE, face_cascade |-> "empty"]
           [] OTHER ->
                [use_face_detection |-> FALSE, face_cascade |-> "None"]
    ELSE [use_face_detection |-> FALSE, face_cascade |-> "None"]

\* The cascade of a processor built with OpenCV present and the cascade file
\* in place.
BuiltCascade(processor) ==
    ImageProcessor_init(processor.use_face_detection, TRUE, "loaded").face_cascade

\* Lines 608-610: locals at the start of a call.
CallEntry ==
    /\ pc = "start"
    /\ detect_call = <<>>
    /\ n_faces = 0
    /\ face_i = 0
    /\ face_region = <<>>
    /\ crop_box = <<>>
    /\ brightness = <<>>
    /\ face_brightnesses = <<>>
    /\ center_box = <<>>
    /\ subject_brightness = <<>>
    /\ method_used = "unknown"
    /\ brightness_factor = <<>>
    /\ raised = ""
    /\ filtered_pixels = <<>>
    /\ sorted_filtered = <<>>

Init ==
    /\ self \in Configs
    /\ gray \in Images
    /\ CallEntry
    /\ face_cascade = BuiltCascade(self)
    /\ first_call = <<>>
    /\ TouchInit
    /\ ConfigInit
    /\ PrinterInit
    /\ ToolInit

\* What detectMultiScale (with the conversions of lines 427-433) does in one
\* call: it raises, or it returns some number of rectangles.
DetectorBehaviours ==
    {<<"raises", 0>>} \cup {<<"returns", n>> : n \in 0..MaxFaces}

\* detect_faces (lines 414-450): the number of rectangles returned and the
\* exception that leaves the method ("" if none).  An empty classifier makes
\* detectMultiScale raise cv2.error.
detect_faces(use_face_detection, cascade, behaviour) ==
    IF ~use_face_detection \/ cascade = "None"
    THEN [entered |-> "guard", faces |-> 0, raised |-> ""]
    ELSE IF behaviour[1] = "raises" \/ cascade = "empty"
         THEN [entered |-> "except", faces |-> 0, raised |-> ""]
         ELSE [entered |-> "try", faces |-> behaviour[2], raised |-> ""]

\* Lines 613-618: the detector is consulted only when face detection is on.
\* The rectangles of the returned list are drawn when the loop reads them.
DetectFaces ==
    /\ pc = "start"
    /\ UNCHANGED <<touchVars, configVars, printerVars, toolVars>>
    /\ IF self.use_face_detection
       THEN \E behaviour \in DetectorBehaviours :
               LET r == detect_faces(self.use_face_detection, face_cascade,
                                     behaviour)
               IN  /\ detect_call' = <<[behaviour |-> behaviour, direct |-> FALSE,
                                        result |-> r]>>
                   /\ IF r.raised # ""
                      THEN /\ raised' = r.raised
                           /\ pc' = "raised"
                           /\ UNCHANGED n_faces
                      ELSE /\ n_faces' = r.faces
                           /\ pc' = IF r.faces > 0 THEN "faces" ELSE "center"
                           /\ UNCHANGED raised
       ELSE /\ n_faces' = 0
            /\ pc' = "center"
            /\ UNCHANGED <<detect_call, raised>>
    /\ UNCHANGED <<self, face_cascade, gray, face_i, face_region, crop_box,
                   brightness, face_brightnesses, center_box,
                   subject_brightness, method_used, brightness_factor,
                   filtered_pixels, sorted_filtered, first_call>>

\* Lines 619-622: one iteration of the loop over the faces.
FaceRegion ==
    /\ pc = "faces"
    /\ UNCHANGED <<touchVars, configVars, printerVars, toolVars>>
    /\ UNCHANGED <<face_cascade, detect_call>>
    /\ face_i < n_faces
    /\ \E region \in Regions(gray) :
          LET b == calculate_brightness_from_region(gray, region, self.percentile)
          IN  /\ face_region' = region
              /\ crop_box' = RegionBox(gray, region)
              /\ brightness' = b
              /\ face_brightnesses' =
                    IF b # <<>> THEN Append(face_brightnesses, b[1])
                    ELSE face_brightnesses
              /\ filtered_pixels' =
                    IF b # <<>> THEN RegionFilter(RegionPixels(gray, region))
                    ELSE <<>>
              /\ sorted_filtered' =
                    IF b # <<>>
                    THEN RegionSortedFiltered(RegionPixels(gray, region))
                    ELSE <<>>
    /\ face_i' = face_i + 1
    /\ UNCHANGED <<self, gray, pc, n_faces, center_box, subject_brightness,
                   method_used, brightness_factor, raised, first_call>>

\* Variant of FaceAverage dividing by the number of detected faces.
FaceAverage_DivideByFaces ==
    /\ pc = "faces"
    /\ UNCHANGED <<touchVars, configVars, printerVars, toolVars>>
    /\ UNCHANGED <<face_cascade, detect_call>>
    /\ face_i = n_faces
    /\ IF Len(face_brightnesses) > 0
       THEN /\ subject_brightness' = <<sum(face_brightnesses), n_faces>>
            /\ method_used' = "face_detection"
            /\ pc' = "factor"
       ELSE /\ pc' = "center"
            /\ UNCHANGED <<subject_brightness, method_used>>
    /\ UNCHANGED <<self, gray, n_faces, face_i, face_region, crop_box,
                   brightness, face_brightnesses, center_box,
                   brightness_factor, raised, filtered_pixels,
                   sorted_filtered, first_call>>

\* Variant of FaceAverage that uses the faces only when two or more of them
\* produced a value.
FaceAverage_NeedsTwo ==
    /\ pc = "faces"
    /\ UNCHANGED <<touchVars, configVars, printerVars, toolVars>>
    /\ UNCHANGED <<face_cascade, detect_call>>
    /\ face_i = n_faces
    /\ IF Len(face_brightnesses) > 1
       THEN /\ subject_brightness' =
                  <<sum(face_brightnesses), Len(face_brightnesses)>>
            /\ method_used' = "face_detection"
            /\ pc' = "factor"
       ELSE /\ pc' = "center"
            /\ UNCHANGED <<subject_brightness, method_used>>
    /\ UNCHANGED <<self, gray, n_faces, face_i, face_region, crop_box,
                   brightness, face_brightnesses, center_box,
                   brightness_factor, raised, filtered_pixels,
                   sorted_filtered, first_call>>

\* Lines 624-627: after the loop, the average of the face brightnesses.
FaceAverage ==
    /\ pc = "faces"
    /\ UNCHANGED <<touchVars, configVars, printerVars, toolVars>>
    /\ UNCHANGED <<face_cascade, detect_call>>
    /\ face_i = n_faces
    /\ IF Len(face_brightnesses) > 0
       THEN /\ subject_brightness' =
                  <<sum(face_brightnesses), Len(face_brightnesses)>>
            /\ method_used' = "face_detection"
            /\ pc' = "factor"
       ELSE /\ pc' = "center"
            /\ UNCHANGED <<subject_brightness, method_used>>
    /\ UNCHANGED <<self, gray, n_faces, face_i, face_region, crop_box,
                   brightness, face_brightnesses, center_box,
                   brightness_factor, raised, filtered_pixels,
                   sorted_filtered, first_call>>

\* Lines 630-662: the center-region fallback.
CenterRegion ==
    /\ pc = "center"
    /\ UNCHANGED <<touchVars, configVars, printerVars, toolVars>>
    /\ UNCHANGED <<face_cascade, detect_call>>
    /\ subject_brightness = <<>>
    /\ LET box == CenterBox(gray, self.center_weight)
           v == CenterPercentile(CropPixels(gray, box), self.percentile)
       IN  /\ method_used' = "center_region"
           /\ center_box' = box
           /\ filtered_pixels' = CenterFilter(CropPixels(gray, box))
           /\ sorted_filtered' = CenterSortedFiltered(CropPixels(gray, box))
           /\ IF v = <<>>
              THEN /\ raised' = "IndexError"
                   /\ pc' = "raised"
                   /\ UNCHANGED subject_brightness
              ELSE /\ subject_brightness' = <<v[1], 1>>
                   /\ pc' = "factor"
                   /\ UNCHANGED raised
    /\ UNCHANGED <<self, gray, n_faces, face_i, face_region, crop_box,
                   brightness, face_brightnesses, brightness_factor,
                   first_call>>

\* What a call depended on besides the processor's fields: the image, the
\* number of faces and the face rectangle; with the gain it returned.
CallRecord(factor) ==
    [fields |-> self, image |-> gray, faces |-> n_faces, region |-> face_region,
     gain |-> factor]

\* Variant of ReturnFactor that leaves the returned gain behind as the
\* processor's upper bound.
ReturnFactor_KeepsGain ==
    /\ pc = "factor"
    /\ UNCHANGED <<touchVars, configVars, printerVars, toolVars>>
    /\ UNCHANGED <<face_cascade, detect_call>>
    /\ brightness_factor' =
          ClampFactor(self.brightness_min, self.brightness_max,
                      RawFactor(self.target_brightness, subject_brightness))
    /\ self' = [self EXCEPT !.brightness_max = brightness_factor']
    /\ first_call' =
          IF first_call = <<>> /\ n_faces <= 1
          THEN <<CallRecord(brightness_factor')>>
          ELSE first_call
    /\ pc' = "done"
    /\ UNCHANGED <<gray, n_faces, face_i, face_region, crop_box,
                   brightness, face_brightnesses, center_box,
                   subject_brightness, method_used, raised, filtered_pixels,
                   sorted_filtered>>

\* Lines 668-679: factor, clamp, return.  The first call with at most one
\* face is remembered in first_call.
ReturnFactor ==
    /\ pc = "factor"
    /\ UNCHANGED <<touchVars, configVars, printerVars, toolVars>>
    /\ UNCHANGED <<face_cascade, detect_call>>
    /\ brightness_factor' =
          ClampFactor(self.brightness_min, self.brightness_max,
                      RawFactor(self.target_brightness, subject_brightness))
    /\ first_call' =
          IF first_call = <<>> /\ n_faces <= 1
          THEN <<CallRecord(brightness_factor')>>
          ELSE first_call
    /\ pc' = "done"
    /\ UNCHANGED <<self, gray, n_faces, face_i, face_region, crop_box,
                   brightness, face_brightnesses, center_box,
                   subject_brightness, method_used, raised, filtered_pixels,
                   sorted_filtered>>

Next ==
    \/ DetectFaces
    \/ FaceRegion
    \/ FaceAverage
    \/ CenterRegion
    \/ ReturnFactor

Spec == Init /\ [][Next]_vars

\* ------------------------- direct calls of calculate_brightness_from_region
InitRegion ==
    /\ self \in RegionConfigs
    /\ gray \in Images
    /\ face_cascade = BuiltCascade(self)
    /\ detect_call = <<>>
    /\ pc = "region_call"
    /\ n_faces = 0
    /\ face_i = 0
    /\ face_region = <<>>
    /\ crop_box = <<>>
    /\ brightness = <<>>
    /\ face_brightnesses = <<>>
    /\ center_box = <<>>
    /\ subject_brightness = <<>>
    /\ method_used = "unknown"
    /\ brightness_factor = <<>>
    /\ raised = ""
    /\ filtered_pixels = <<>>
    /\ sorted_filtered = <<>>
    /\ first_call = <<>>
    /\ TouchInit
    /\ ConfigInit
    /\ PrinterInit
    /\ ToolInit

\* Rectangles of the direct calls: all of AllRegions for the processor of
\* RegionConfigs, the whole image for the processors of the sample rows.
DirectRegions(processor, image) ==
    IF processor \in RegionConfigs THEN AllRegions(image)
    ELSE {<<0, 0, image.w, image.h>>}

\* Lines 554-592 applied to one rectangle.
RegionCall ==
    /\ pc = "region_call"
    /\ UNCHANGED <<touchVars, configVars, printerVars, toolVars>>
    /\ UNCHANGED <<face_cascade, detect_call>>
    /\ \E region \in DirectRegions(self, gray) :
          LET b == calculate_brightness_from_region(gray, region, self.percentile)
          IN  /\ face_region' = region
              /\ crop_box' = RegionBox(gray, region)
              /\ brightness' = b
              /\ filtered_pixels' =
                    IF b # <<>> THEN RegionFilter(RegionPixels(gray, region))
                    ELSE <<>>
              /\ sorted_filtered' =
                    IF b # <<>>
                    THEN RegionSortedFiltered(RegionPixels(gray, region))
                    ELSE <<>>
    /\ pc' = "region_return"
    /\ UNCHANGED <<self, gray, n_faces, face_i, face_brightnesses, center_box,
                   subject_brightness, method_used, brightness_factor, raised,
                   first_call>>

NextRegion == RegionCall

SpecRegion == InitRegion /\ [][NextRegion]_vars

\* --------------------------------------------- both paths on sample rows
\* A sample row goes either through calculate_brightness_from_region as a
\* whole-image rectangle, or through the center-region branch.
InitSamples ==
    /\ self \in SampleConfigs
    /\ gray \in SampleImages
    /\ face_cascade = BuiltCascade(self)
    /\ detect_call = <<>>
    /\ pc \in {"start", "region_call"}
    /\ n_faces = 0
    /\ face_i = 0
    /\ face_region = <<>>
    /\ crop_box = <<>>
    /\ brightness = <<>>
    /\ face_brightnesses = <<>>
    /\ center_box = <<>>
    /\ subject_brightness = <<>>
    /\ method_used = "unknown"
    /\ brightness_factor = <<>>
    /\ raised = ""
    /\ filtered_pixels = <<>>
    /\ sorted_filtered = <<>>
    /\ first_call = <<>>
    /\ TouchInit
    /\ ConfigInit
    /\ PrinterInit
    /\ ToolInit

NextSamples ==
    \/ RegionCall
    \/ DetectFaces
    \/ CenterRegion
    \/ ReturnFactor

SpecSamples == InitSamples /\ [][NextSamples]_vars

\* ------------------------------------------------ one processor, many calls
\* Images and processors of a sequence of calls: one-row images of black
\* and bright pixels.
CallImages ==
    {image \in Images :
        /\ image.h = 1
        /\ image.w <= MaxCallPixels
        /\ \A k \in 1..Len(image.px) : image.px[k] \in {0, 200}}

CallConfigs ==
    { MkConfig(200, << <<1, 2>>, <<3, 1>> >>, <<1, 1>>, 30, FALSE),
      MkConfig(200, << <<1, 2>>, <<3, 1>> >>, <<1, 1>>, 30, TRUE) }

InitCalls ==
    /\ self \in CallConfigs
    /\ gray \in CallImages
    /\ CallEntry
    /\ face_cascade = BuiltCascade(self)
    /\ first_call = <<>>
    /\ TouchInit
    /\ ConfigInit
    /\ PrinterInit
    /\ ToolInit

\* process_image calls calculate_auto_brightness again for the next image:
\* the locals start afresh, the processor is the same object.
NextCall ==
    /\ pc = "done"
    /\ UNCHANGED <<touchVars, configVars, printerVars, toolVars>>
    /\ gray' \in CallImages
    /\ pc' = "start"
    /\ n_faces' = 0
    /\ face_i' = 0
    /\ face_region' = <<>>
    /\ crop_box' = <<>>
    /\ brightness' = <<>>
    /\ face_brightnesses' = <<>>
    /\ center_box' = <<>>
    /\ subject_brightness' = <<>>
    /\ method_used' = "unknown"
    /\ brightness_factor' = <<>>
    /\ raised' = ""
    /\ filtered_pixels' = <<>>
    /\ sorted_filtered' = <<>>
    /\ detect_call' = <<>>
    /\ UNCHANGED <<self, face_cascade, first_call>>

NextCalls ==
    \/ DetectFaces
    \/ FaceRegion
    \/ FaceAverage
    \/ CenterRegion
    \/ ReturnFactor
    \/ NextCall

SpecCalls == InitCalls /\ [][NextCalls]_vars

\* The estimator at rest while the configuration loads or the handler runs.
EstimatorIdle ==
    /\ self = MkConfig(200, << <<1, 2>>, <<3, 1>> >>, <<7, 10>>, 75, FALSE)
    /\ gray = [w |-> 1, h |-> 1, px |-> <<100>>]
    /\ CallEntry
    /\ face_cascade = BuiltCascade(self)
    /\ first_call = <<>>

\* ------------------------------------------------------ _load_local_config
\* Lines 97-104: import config_example, or ImportError if the file is
\* missing.
LoadExample ==
    /\ load_pc = "start"
    /\ \/ /\ example_cfg' = <<>>
          /\ UNCHANGED Config
       \/ \E module \in Modules("example") :
             /\ example_cfg' = <<module>>
             /\ Config' = ApplyModule(Config, module)
    /\ load_pc' = "example_done"
    /\ UNCHANGED <<estimatorVars, touchVars, printerVars, toolVars, local_config>>

\* Lines 106-113: import local_config, or ImportError if the file is missing.
LoadLocal ==
    /\ load_pc = "example_done"
    /\ \/ /\ local_config' = <<>>
          /\ UNCHANGED Config
       \/ \E module \in Modules("local") :
             /\ local_config' = <<module>>
             /\ Config' = ApplyModule(Config, module)
    /\ load_pc' = "local_done"
    /\ UNCHANGED <<estimatorVars, touchVars, printerVars, toolVars, example_cfg>>

\* Lines 114-116: the loop over _STORE_DEFAULTS.
StoreDefaults ==
    /\ load_pc = "local_done"
    /\ Config' = EnsureStoreKeys(Config)
    /\ load_pc' = "loaded"
    /\ UNCHANGED <<estimatorVars, touchVars, printerVars, toolVars, example_cfg, local_config>>

InitConfig ==
    /\ EstimatorIdle
    /\ TouchInit
    /\ ConfigInit
    /\ PrinterInit
    /\ ToolInit

NextConfig ==
    \/ LoadExample
    \/ LoadLocal
    \/ StoreDefaults

SpecConfig == InitConfig /\ [][NextConfig]_vars

\* ------------------------------------------------------ TouchscreenHandler
\* Each action is one read or write of an attribute of the handler by one
\* of its threads; the threads interleave between any two of them.
\* The duration of the current touch at the moment the monitor measures it,
\* or would have measured it had lines 195-196 found the touch's state.
TapMeasured ==
    [taps EXCEPT ![touches].duration = <<now - taps[touches].start>>]

\* Lines 183-187 (209): the monitor reads a touch-down event and tests
\* "not self._touch_down".
ReadTouchDown ==
    /\ monitor_pc = "read_event"
    /\ finger = "up"
    /\ touches < MaxTouches
    /\ finger' = "down"
    /\ monitor_pc' = IF ~touch_down THEN "line189" ELSE "read_event"
    /\ UNCHANGED <<touch_detected, touch_down, touch_start_time,
                   long_press_detected, now, monitor_duration, longpress_pc,
                   longpress_duration, touches, start_touch, longpress_touch,
                   printed, long_detected,
                   taps>>
    /\ UNCHANGED <<estimatorVars, configVars, printerVars, toolVars>>

\* Line 189 (211).
TouchDownSet ==
    /\ monitor_pc = "line189"
    /\ touch_down' = TRUE
    /\ touches' = touches + 1
    /\ monitor_pc' = "line190"
    /\ UNCHANGED <<touch_detected, touch_start_time, long_press_detected, now,
                   finger, monitor_duration, longpress_pc, longpress_duration,
                   start_touch, longpress_touch, printed, long_detected,
                   taps>>
    /\ UNCHANGED <<estimatorVars, configVars, printerVars, toolVars>>

\* Line 190 (212).
TouchDownStamp ==
    /\ monitor_pc = "line190"
    /\ touch_start_time' = <<now>>
    /\ start_touch' = touches
    /\ monitor_pc' = "line191"
    /\ taps' = Append(taps, [start |-> now, duration |-> <<>>])
    /\ UNCHANGED <<touch_detected, touch_down, long_press_detected, now,
                   finger, monitor_duration, longpress_pc, longpress_duration,
                   touches, longpress_touch, printed, long_detected>>
    /\ UNCHANGED <<estimatorVars, configVars, printerVars, toolVars>>

\* Line 191 (213).
TouchDownClearFlag ==
    /\ monitor_pc = "line191"
    /\ long_press_detected' = FALSE
    /\ monitor_pc' = "read_event"
    /\ UNCHANGED <<touch_detected, touch_down, touch_start_time, now, finger,
                   monitor_duration, longpress_pc, longpress_duration, touches,
                   start_touch, longpress_touch, printed, long_detected,
                   taps>>
    /\ UNCHANGED <<estimatorVars, configVars, printerVars, toolVars>>

\* Lines 193-195 (215-217): the monitor reads a touch-up event and tests
\* self._touch_down.
ReadTouchUp ==
    /\ monitor_pc = "read_event"
    /\ finger = "down"
    /\ finger' = "up"
    /\ monitor_pc' = IF touch_down THEN "line195" ELSE "line202"
    /\ taps' = IF touch_down THEN taps ELSE TapMeasured
    /\ UNCHANGED <<touch_detected, touch_down, touch_start_time,
                   long_press_detected, now, monitor_duration, longpress_pc,
                   longpress_duration, touches, start_touch, longpress_touch,
                   printed, long_detected>>
    /\ UNCHANGED <<estimatorVars, configVars, printerVars, toolVars>>

\* Line 195 (217), second operand: self._touch_start_time is not None.
TouchUpTestStart ==
    /\ monitor_pc = "line195"
    /\ monitor_pc' = IF touch_start_time # <<>> THEN "line196" ELSE "line202"
    /\ taps' = IF touch_start_time # <<>> THEN taps ELSE TapMeasured
    /\ UNCHANGED <<touch_detected, touch_down, touch_start_time,
                   long_press_detected, now, finger, monitor_duration,
                   longpress_pc, longpress_duration, touches, start_touch,
                   longpress_touch, printed, long_detected>>
    /\ UNCHANGED <<estimatorVars, configVars, printerVars, toolVars>>

\* Line 196 (218): time.time() - self._touch_start_time; TypeError ends the
\* thread if the start time has become None.
TouchUpDuration ==
    /\ monitor_pc = "line196"
    /\ IF touch_start_time = <<>>
       THEN /\ monitor_pc' = "TypeError"
            /\ UNCHANGED monitor_duration
       ELSE /\ monitor_duration' = <<now - touch_start_time[1]>>
            /\ monitor_pc' = "line199"
    /\ taps' = TapMeasured
    /\ UNCHANGED <<touch_detected, touch_down, touch_start_time,
                   long_press_detected, now, finger, longpress_pc,
                   longpress_duration, touches, start_touch, longpress_touch,
                   printed, long_detected>>
    /\ UNCHANGED <<estimatorVars, configVars, printerVars, toolVars>>

\* Line 199 (221): duration < long_press_duration and not
\* self._long_press_detected.
TouchUpDecide ==
    /\ monitor_pc = "line199"
    /\ monitor_pc' =
          IF monitor_duration[1] < LONG_PRESS_DURATION /\ ~long_press_detected
          THEN "line200" ELSE "line202"
    /\ UNCHANGED <<touch_detected, touch_down, touch_start_time,
                   long_press_detected, now, finger, monitor_duration,
                   longpress_pc, longpress_duration, touches, start_touch,
                   longpress_touch, printed, long_detected,
                   taps>>
    /\ UNCHANGED <<estimatorVars, configVars, printerVars, toolVars>>

\* Line 200 (222): the print trigger.
TouchUpTrigger ==
    /\ monitor_pc = "line200"
    /\ touch_detected' = TRUE
    /\ printed' = printed \cup
          {[touch |-> touches, duration |-> monitor_duration[1]]}
    /\ monitor_pc' = "line202"
    /\ UNCHANGED <<touch_down, touch_start_time, long_press_detected, now,
                   finger, monitor_duration, longpress_pc, longpress_duration,
                   touches, start_touch, longpress_touch, long_detected,
                   taps>>
    /\ UNCHANGED <<estimatorVars, configVars, printerVars, toolVars>>

\* Line 202 (224).
TouchUpResetDown ==
    /\ monitor_pc = "line202"
    /\ touch_down' = FALSE
    /\ monitor_pc' = "line203"
    /\ UNCHANGED <<touch_detected, touch_start_time, long_press_detected, now,
                   finger, monitor_duration, longpress_pc, longpress_duration,
                   touches, start_touch, longpress_touch, printed,
                   long_detected,
                   taps>>
    /\ UNCHANGED <<estimatorVars, configVars, printerVars, toolVars>>

\* Line 203 (225).
TouchUpResetStart ==
    /\ monitor_pc = "line203"
    /\ touch_start_time' = <<>>
    /\ monitor_pc' = "line204"
    /\ UNCHANGED <<touch_detected, touch_down, long_press_detected, now,
                   finger, monitor_duration, longpress_pc, longpress_duration,
                   touches, start_touch, longpress_touch, printed,
                   long_detected,
                   taps>>
    /\ UNCHANGED <<estimatorVars, configVars, printerVars, toolVars>>

\* Line 204 (226); the handling of the event ends.
TouchUpResetFlag ==
    /\ monitor_pc = "line204"
    /\ long_press_detected' = FALSE
    /\ monitor_duration' = <<>>
    /\ monitor_pc' = "read_event"
    /\ UNCHANGED <<touch_detected, touch_down, touch_start_time, now, finger,
                   longpress_pc, longpress_duration, touches, start_touch,
                   longpress_touch, printed, long_detected,
                   taps>>
    /\ UNCHANGED <<estimatorVars, configVars, printerVars, toolVars>>

\* Line 166: _stop_long_press_check is never set, the loop goes on.
LongPressLoop ==
    /\ longpress_pc = "line166"
    /\ longpress_pc' = "line167"
    /\ UNCHANGED <<touch_detected, touch_down, touch_start_time,
                   long_press_detected, now, finger, monitor_pc,
                   monitor_duration, longpress_duration, touches, start_touch,
                   longpress_touch, printed, long_detected,
                   taps>>
    /\ UNCHANGED <<estimatorVars, configVars, printerVars, toolVars>>

\* Line 167, first operand: self._touch_down.
LongPressTestDown ==
    /\ longpress_pc = "line167"
    /\ longpress_pc' = IF touch_down THEN "line167b" ELSE "line176"
    /\ UNCHANGED <<touch_detected, touch_down, touch_start_time,
                   long_press_detected, now, finger, monitor_pc,
                   monitor_duration, longpress_duration, touches, start_touch,
                   longpress_touch, printed, long_detected,
                   taps>>
    /\ UNCHANGED <<estimatorVars, configVars, printerVars, toolVars>>

\* Line 167, second operand: self._touch_start_time.
LongPressTestStart ==
    /\ longpress_pc = "line167b"
    /\ longpress_pc' = IF touch_start_time # <<>> THEN "line168" ELSE "line176"
    /\ UNCHANGED <<touch_detected, touch_down, touch_start_time,
                   long_press_detected, now, finger, monitor_pc,
                   monitor_duration, longpress_duration, touches, start_touch,
                   longpress_touch, printed, long_detected,
                   taps>>
    /\ UNCHANGED <<estimatorVars, configVars, printerVars, toolVars>>

\* Lines 168-169: time.time() - self._touch_start_time, TypeError if the
\* start time has become None; then the comparison with the threshold.
LongPressDuration ==
    /\ longpress_pc = "line168"
    /\ IF touch_start_time = <<>>
       THEN /\ longpress_pc' = "TypeError"
            /\ UNCHANGED <<longpress_duration, longpress_touch,
                   taps>>
       ELSE /\ longpress_duration' = <<now - touch_start_time[1]>>
            /\ longpress_touch' = start_touch
            /\ longpress_pc' =
                  IF now - touch_start_time[1] >= LONG_PRESS_DURATION
                  THEN "line171" ELSE "line176"
    /\ UNCHANGED <<touch_detected, touch_down, touch_start_time,
                   long_press_detected, now, finger, monitor_pc,
                   monitor_duration, touches, start_touch, printed,
                   long_detected,
                   taps>>
    /\ UNCHANGED <<estimatorVars, configVars, printerVars, toolVars>>

\* The monitor is between line 189 and the end of line 204 for touch t.
TouchOpen(t) ==
    /\ t = touches
    /\ t > 0
    /\ ~(monitor_pc = "read_event" /\ finger = "up")

\* Line 171: the long press is marked as detected.
LongPressMark ==
    /\ longpress_pc = "line171"
    /\ long_press_detected' = TRUE
    /\ long_detected' =
          IF TouchOpen(longpress_touch)
          THEN long_detected \cup {longpress_touch} ELSE long_detected
    /\ longpress_pc' = "line172"
    /\ UNCHANGED <<touch_detected, touch_down, touch_start_time, now, finger,
                   monitor_pc, monitor_duration, longpress_duration, touches,
                   start_touch, longpress_touch, printed,
                   taps>>
    /\ UNCHANGED <<estimatorVars, configVars, printerVars, toolVars>>

\* Line 172: exit_fullscreen().
LongPressExit ==
    /\ longpress_pc = "line172"
    /\ longpress_pc' = "line174"
    /\ UNCHANGED <<touch_detected, touch_down, touch_start_time,
                   long_press_detected, now, finger, monitor_pc,
                   monitor_duration, longpress_duration, touches, start_touch,
                   longpress_touch, printed, long_detected,
                   taps>>
    /\ UNCHANGED <<estimatorVars, configVars, printerVars, toolVars>>

\* Line 174.
LongPressResetDown ==
    /\ longpress_pc = "line174"
    /\ touch_down' = FALSE
    /\ longpress_pc' = "line175"
    /\ UNCHANGED <<touch_detected, touch_start_time, long_press_detected, now,
                   finger, monitor_pc, monitor_duration, longpress_duration,
                   touches, start_touch, longpress_touch, printed,
                   long_detected,
                   taps>>
    /\ UNCHANGED <<estimatorVars, configVars, printerVars, toolVars>>

\* Line 175.
LongPressResetStart ==
    /\ longpress_pc = "line175"
    /\ touch_start_time' = <<>>
    /\ longpress_pc' = "line176"
    /\ UNCHANGED <<touch_detected, touch_down, long_press_detected, now,
                   finger, monitor_pc, monitor_duration, longpress_duration,
                   touches, start_touch, longpress_touch, printed,
                   long_detected,
                   taps>>
    /\ UNCHANGED <<estimatorVars, configVars, printerVars, toolVars>>

\* Line 176: time.sleep(0.1).
LongPressSleep ==
    /\ longpress_pc = "line176"
    /\ longpress_duration' = <<>>
    /\ longpress_pc' = "line166"
    /\ UNCHANGED <<touch_detected, touch_down, touch_start_time,
                   long_press_detected, now, finger, monitor_pc,
                   monitor_duration, touches, start_touch, longpress_touch,
                   printed, long_detected,
                   taps>>
    /\ UNCHANGED <<estimatorVars, configVars, printerVars, toolVars>>

\* Lines 848-858: the main loop sees touch_detected and calls reset().
reset ==
    /\ touch_detected
    /\ touch_detected' = FALSE
    /\ UNCHANGED <<touch_down, touch_start_time, long_press_detected, now,
                   finger, monitor_pc, monitor_duration, longpress_pc,
                   longpress_duration, touches, start_touch, longpress_touch,
                   printed, long_detected,
                   taps>>
    /\ UNCHANGED <<estimatorVars, configVars, printerVars, toolVars>>

\* A second passes.
Tick ==
    /\ now < MaxTime
    /\ now' = now + 1
    /\ UNCHANGED <<touch_detected, touch_down, touch_start_time,
                   long_press_detected, finger, monitor_pc, monitor_duration,
                   longpress_pc, longpress_duration, touches, start_touch,
                   longpress_touch, printed, long_detected,
                   taps>>
    /\ UNCHANGED <<estimatorVars, configVars, printerVars, toolVars>>

InitTouch ==
    /\ EstimatorIdle
    /\ TouchInit
    /\ ConfigInit
    /\ PrinterInit
    /\ ToolInit

NextTouch ==
    \/ ReadTouchDown
    \/ TouchDownSet
    \/ TouchDownStamp
    \/ TouchDownClearFlag
    \/ ReadTouchUp
    \/ TouchUpTestStart
    \/ TouchUpDuration
    \/ TouchUpDecide
    \/ TouchUpTrigger
    \/ TouchUpResetDown
    \/ TouchUpResetStart
    \/ TouchUpResetFlag
    \/ LongPressLoop
    \/ LongPressTestDown
    \/ LongPressTestStart
    \/ LongPressDuration
    \/ LongPressMark
    \/ LongPressExit
    \/ LongPressResetDown
    \/ LongPressResetStart
    \/ LongPressSleep
    \/ reset
    \/ Tick

SpecTouch == InitTouch /\ [][NextTouch]_vars

\* ================================================================== claims
\* clamp(x, lo, hi) as the claims use it, for a non-empty interval lo <= hi.
ClampTo(x, lo, hi) ==
    IF RatLt(x, lo) THEN lo ELSE IF RatLt(hi, x) THEN hi ELSE x

BoundsOrdered == RatLe(self.brightness_min, self.brightness_max)

\* A non-empty pixel list whose every element is v.
Uniform(pixels, v) ==
    /\ Len(pixels) >= 1
    /\ \A k \in 1..Len(pixels) : pixels[k] = v

\* C1: with brightness_min <= brightness_max, every returned gain lies in
\* [brightness_min, brightness_max], whichever branch produced it.
C1_GainWithinBounds ==
    (pc = "done" /\ BoundsOrdered) =>
        /\ RatLe(self.brightness_min, brightness_factor)
        /\ RatLe(brightness_factor, self.brightness_max)

\* C1 witness: a face-region call whose raw factor exceeds brightness_max
\* returned brightness_max.
C1_Witness ==
    /\ pc = "done"
    /\ BoundsOrdered
    /\ method_used = "face_detection"
    /\ RatLt(self.brightness_max,
             RawFactor(self.target_brightness, subject_brightness))
    /\ RatEq(brightness_factor, self.brightness_max)

\* C2 (as claimed): no call of calculate_auto_brightness raises an error.
C2_NeverRaises == raised = ""

\* C3: whenever the subject brightness S is > 0 the returned gain is
\* clamp(target_brightness / S, brightness_min, brightness_max); target 200,
\* bounds 0.5..3.0 and S = 100 give exactly 2.0.
C3_GainIsClampedRatio ==
    /\ (pc = "done" /\ subject_brightness[1] > 0 /\ BoundsOrdered) =>
          RatEq(brightness_factor,
                ClampTo(<<self.target_brightness * subject_brightness[2],
                          subject_brightness[1]>>,
                        self.brightness_min, self.brightness_max))
    /\ (/\ pc = "done"
        /\ self.target_brightness = 200
        /\ self.brightness_min = <<1, 2>>
        /\ self.brightness_max = <<3, 1>>
        /\ RatEq(subject_brightness, <<100, 1>>)) =>
          RatEq(brightness_factor, <<2, 1>>)

\* C3 witness: the documented example, from the center region.
C3_Witness ==
    /\ pc = "done"
    /\ method_used = "center_region"
    /\ self.target_brightness = 200
    /\ self.brightness_min = <<1, 2>>
    /\ self.brightness_max = <<3, 1>>
    /\ subject_brightness = <<100, 1>>
    /\ RatEq(brightness_factor, <<2, 1>>)

\* C4: a subject brightness of 0 never stops the call, and the returned gain
\* is clamp(2.0, brightness_min, brightness_max) whatever target_brightness.
C4_BlackRegionFallback ==
    /\ (subject_brightness # <<>> /\ subject_brightness[1] = 0) =>
          (raised = "" /\ pc \in {"factor", "done"})
    /\ (pc = "done" /\ subject_brightness[1] = 0 /\ BoundsOrdered) =>
          RatEq(brightness_factor,
                ClampTo(<<2, 1>>, self.brightness_min, self.brightness_max))

\* C4 witness: an all-black center region, the fallback 2.0 clamped down to
\* brightness_max = 1.5.
C4_Witness ==
    /\ pc = "done"
    /\ center_box # <<>>
    /\ Uniform(CropPixels(gray, center_box), 0)
    /\ self.brightness_max = <<3, 2>>
    /\ brightness_factor = <<3, 2>>

\* C5: a region of interest whose pixels all have the same value V > 0 has
\* subject brightness V, for every region size and percentile, and the gain
\* is clamp(target_brightness / V, brightness_min, brightness_max).
C5_UniformRegion ==
    \A V \in PixelVals \ {0} :
        /\ (center_box # <<>> /\ Uniform(CropPixels(gray, center_box), V)) =>
              /\ subject_brightness # <<>>
              /\ RatEq(subject_brightness, <<V, 1>>)
              /\ (pc = "done" /\ BoundsOrdered) =>
                    RatEq(brightness_factor,
                          ClampTo(<<self.target_brightness, V>>,
                                  self.brightness_min, self.brightness_max))
        /\ (crop_box # <<>> /\ Uniform(CropPixels(gray, crop_box), V)) =>
              /\ brightness = <<V>>
              /\ (pc = "done" /\ n_faces = 1 /\ BoundsOrdered) =>
                    /\ RatEq(subject_brightness, <<V, 1>>)
                    /\ RatEq(brightness_factor,
                             ClampTo(<<self.target_brightness, V>>,
                                     self.brightness_min, self.brightness_max))

\* C5 witness: a uniform center region of four pixels at percentile 100.
C5_Witness ==
    /\ pc = "done"
    /\ center_box # <<>>
    /\ Len(CropPixels(gray, center_box)) = 4
    /\ Uniform(CropPixels(gray, center_box), 100)
    /\ self.percentile = 100
    /\ subject_brightness = <<100, 1>>

\* C6: the subject brightness of the face branch is the arithmetic mean of
\* the per-region values, each region weighted equally: sum / count over the
\* regions that produced a value, (B1 + B2) / 2 for two of them.
C6_FacesAveragedEqually ==
    (pc \in {"factor", "done"} /\ method_used = "face_detection") =>
        /\ Len(face_brightnesses) >= 1
        /\ subject_brightness[1] * Len(face_brightnesses)
              = sum(face_brightnesses) * subject_brightness[2]
        /\ Len(face_brightnesses) = 2 =>
              2 * subject_brightness[1]
                 = (face_brightnesses[1] + face_brightnesses[2])
                      * subject_brightness[2]

\* C6 witness: two faces of different brightness, 200 and 0, averaged to 100.
C6_Witness ==
    /\ pc = "done"
    /\ n_faces = 2
    /\ face_brightnesses = <<200, 0>>
    /\ RatEq(subject_brightness, <<100, 1>>)

\* Width and height of a region after clamping to the image bounds.
ClampedWidth(image, region) ==
    Min2(region[3], image.w - Max2(0, Min2(region[1], image.w - 1)))
ClampedHeight(image, region) ==
    Min2(region[4], image.h - Max2(0, Min2(region[2], image.h - 1)))

\* C7: a face region whose clamped width or height is <= 0 is skipped: the
\* method returns None without error and the region enters neither the sum
\* nor the count of the face average.
C7_EmptyRegionSkipped ==
    [][(/\ pc = "faces"
        /\ face_i' = face_i + 1
        /\ \/ ClampedWidth(gray, face_region') <= 0
           \/ ClampedHeight(gray, face_region') <= 0)
       => /\ brightness' = <<>>
          /\ crop_box' = <<>>
          /\ face_brightnesses' = face_brightnesses
          /\ raised' = ""
          /\ pc' = "faces"]_vars

\* C7 witness: of two faces the second had zero width; the average is the
\* value of the first alone.
C7_Witness ==
    /\ pc = "done"
    /\ n_faces = 2
    /\ face_region = <<0, 0, 0, gray.h>>
    /\ brightness = <<>>
    /\ Len(face_brightnesses) = 1
    /\ subject_brightness = <<face_brightnesses[1], 1>>

\* C8 (as claimed): a region without overlap with the image yields no sample.
NoOverlap(image, region) ==
    \/ region[1] >= image.w
    \/ region[2] >= image.h
    \/ region[1] + region[3] <= 0
    \/ region[2] + region[4] <= 0
    \/ region[3] <= 0
    \/ region[4] <= 0

C8_NoOverlapNoSample ==
    (pc = "region_return" /\ NoOverlap(gray, face_region)) => brightness = <<>>

\* C9: the rectangle cropped for a region that is not skipped lies inside the
\* image: 0 <= left < right <= width and 0 <= top < bottom <= height.
C9_CropInsideImage ==
    /\ brightness # <<>> => crop_box # <<>>
    /\ crop_box # <<>> =>
          /\ 0 <= crop_box[1]
          /\ crop_box[1] < crop_box[3]
          /\ crop_box[3] <= gray.w
          /\ 0 <= crop_box[2]
          /\ crop_box[2] < crop_box[4]
          /\ crop_box[4] <= gray.h

\* C9 witness: a region with negative origin and oversized extent was cropped
\* to the whole image.
C9_Witness ==
    /\ pc = "region_return"
    /\ gray.w * gray.h >= 2
    /\ face_region = <<-1, -1, gray.w + 1, gray.h + 1>>
    /\ crop_box = <<0, 0, gray.w, gray.h>>
    /\ brightness # <<>>

\* C10: the center box is used exactly when face detection is off, or it
\* returns no faces, or no face region yields a sample; when a face region
\* yields a sample the subject brightness is the face average and no center
\* box is computed.
C10_CenterOnlyWithoutFaceSample ==
    /\ pc \in {"factor", "done", "raised"} =>
          /\ (method_used = "center_region") <=>
                \/ ~self.use_face_detection
                \/ n_faces = 0
                \/ Len(face_brightnesses) = 0
          /\ (center_box # <<>>) <=> (method_used = "center_region")
    /\ Len(face_brightnesses) > 0 =>
          /\ center_box = <<>>
          /\ pc \in {"factor", "done"} =>
                /\ method_used = "face_detection"
                /\ subject_brightness
                      = <<sum(face_brightnesses), Len(face_brightnesses)>>

\* C10 witness: two faces were detected, neither produced a sample, and the
\* center region gave the gain.
C10_Witness ==
    /\ pc = "done"
    /\ self.use_face_detection
    /\ n_faces = 2
    /\ Len(face_brightnesses) = 0
    /\ method_used = "center_region"
    /\ center_box # <<>>

\* floor(size * (1 - center_weight) / 2) for center_weight = <<num, den>>:
\* the integer m with 2 * den * m <= size * (den - num) < 2 * den * (m + 1).
FloorMargin(size, center_weight) ==
    CHOOSE m \in 0..size :
        /\ 2 * center_weight[2] * m <= size * (center_weight[2] - center_weight[1])
        /\ size * (center_weight[2] - center_weight[1])
              < 2 * center_weight[2] * (m + 1)

C12_CenterSameAsRegion ==
    (/\ center_box # <<>>
     /\ center_box[3] > center_box[1]
     /\ center_box[4] > center_box[2]) =>
        /\ pc \in {"factor", "done"}
        /\ subject_brightness # <<>>
        /\ subject_brightness[2] = 1
        /\ <<subject_brightness[1]>> =
              calculate_brightness_from_region(
                  gray,
                  <<center_box[1], center_box[2],
                    center_box[3] - center_box[1], center_box[4] - center_box[2]>>,
                  self.percentile)

\* C12 witness: the center-region branch returned for a row from which the
\* filter had removed samples.
C12_Witness ==
    /\ pc = "done"
    /\ method_used = "center_region"
    /\ Len(filtered_pixels) > 0
    /\ Len(filtered_pixels) < gray.w * gray.h
    /\ self.percentile = 30

\* The samples the outlier filter was applied to in the current state: the
\* pixels of the center box, or of the cropped region; <<>> if no filter ran.
Samples ==
    IF center_box # <<>> THEN CropPixels(gray, center_box)
    ELSE IF crop_box # <<>> THEN CropPixels(gray, crop_box)
    ELSE <<>>

\* Positions of the samples below lo, above hi, and from lo to hi.
Below(samples, lo) == {k \in 1..Len(samples) : samples[k] < lo}
Above(samples, hi) == {k \in 1..Len(samples) : samples[k] > hi}
Within(samples, lo, hi) ==
    {k \in 1..Len(samples) : lo <= samples[k] /\ samples[k] <= hi}
AllWithin(samples, lo, hi) ==
    \A k \in 1..Len(samples) : lo <= samples[k] /\ samples[k] <= hi

\* C13 as stated: of n sorted samples the floor(0.05 n) lowest and as many
\* highest are removed, and every other sample is kept.
C13_RankTrim ==
    Len(Samples) > 0 =>
        LET n == Len(Samples)
            k == (5 * n) \div 100
        IN  sorted(filtered_pixels) = SubSeq(sorted(Samples), k + 1, n - k)

\* The filter kept the samples from p5 to p95 and removed no more than the
\* ranks below floor(0.05 n) and above floor(0.95 n); s is the sorted list.
ValueTrim(samples, n, s) ==
    /\ AllWithin(filtered_pixels, s[((5 * n) \div 100) + 1], s[((95 * n) \div 100) + 1])
    /\ Len(filtered_pixels) =
          Cardinality(Within(samples, s[((5 * n) \div 100) + 1],
                             s[((95 * n) \div 100) + 1]))
    /\ Cardinality(Below(samples, s[((5 * n) \div 100) + 1])) <= (5 * n) \div 100
    /\ Cardinality(Above(samples, s[((95 * n) \div 100) + 1])) <=
          n - 1 - ((95 * n) \div 100)
    /\ Len(filtered_pixels) >= 1
    /\ n < 20 => filtered_pixels = samples

\* C13, amended: the filter keeps exactly the samples v with p5 <= v <= p95,
\* p5 and p95 being the sorted samples at indices floor(0.05 n) and
\* floor(0.95 n); samples equal to a threshold are kept, so at most
\* floor(0.05 n) samples are removed at the low end and at most
\* n - 1 - floor(0.95 n) at the high end, and none when n < 20.
C13_ValueTrim ==
    Len(Samples) > 0 =>
        ValueTrim(Samples, Len(Samples), sorted(Samples))

\* C13 witness: a row of 21 samples or more from which the filter removed
\* the one 0 and the one 255.
C13_Witness ==
    /\ pc = "region_return"
    /\ Len(Samples) >= 21
    /\ Len(filtered_pixels) = Len(Samples) - 2
    /\ Cardinality(Below(Samples, 1)) = 1
    /\ Cardinality(Above(Samples, 254)) = 1

\* The representative brightness of the current state: <<value>> from the
\* center-region branch or from the cropped region, <<>> if there is none.
Representative ==
    IF center_box # <<>>
    THEN IF subject_brightness # <<>> THEN <<subject_brightness[1]>> ELSE <<>>
    ELSE brightness

Occurs(v, samples) == \E k \in 1..Len(samples) : samples[k] = v

\* C14: the representative brightness is the element of the sorted remaining
\* samples at index min(floor(n * percentile / 100), n - 1), n being their
\* number.
C14_FloorIndex ==
    sorted_filtered # <<>> =>
        LET n == Len(sorted_filtered)
            idx == Min2((n * self.percentile) \div 100, n - 1)
        IN  Representative = <<sorted_filtered[idx + 1]>>

\* What the code does where C14 says floor: the index is
\* min(int(n * (percentile / 100.0)), n - 1) in double arithmetic, one less
\* than the floor for the pairs of FloatShort (n = 50, percentile = 58 gives
\* 28, not 29); it lies within 0..n-1 and the result occurs in the region.
FloatIndexInRange ==
    sorted_filtered # <<>> =>
        LET n == Len(sorted_filtered)
            floor == (n * self.percentile) \div 100
            short == IF <<n, self.percentile>> \in FloatShort THEN 1 ELSE 0
            idx == Min2(floor - short, n - 1)
        IN  /\ idx \in 0..(n - 1)
            /\ Representative = <<sorted_filtered[idx + 1]>>
            /\ Occurs(Representative[1], Samples)

\* 50 remaining samples and percentile 58: the element at index 28 (100) was
\* returned, the element at index 29 is 200.
FloatIndexShort ==
    /\ pc = "region_return"
    /\ Len(sorted_filtered) = 50
    /\ self.percentile = 58
    /\ sorted_filtered[30] = 200
    /\ brightness = <<100>>

\* The outliers of C15 are the samples equal to 0 or 255; the others are the
\* mid-range samples.
IsOutlier(v) == v = 0 \/ v = 255
MidRange(samples) == SelectSeq(samples, LAMBDA v : ~IsOutlier(v))

\* A list with outliers, all of them inside the trimmed ranks: at most
\* floor(0.05 n) samples of 0 and at most n - 1 - floor(0.95 n) of 255.
FewOutliers(samples) ==
    LET n == Len(samples)
    IN  /\ n > 0
        /\ Cardinality(Below(samples, 1)) + Cardinality(Above(samples, 254)) > 0
        /\ Cardinality(Below(samples, 1)) <= (5 * n) \div 100
        /\ Cardinality(Above(samples, 254)) <= n - 1 - ((95 * n) \div 100)

\* C15 as stated: with a few outliers among mid-range samples, the
\* representative brightness equals the one computed for the mid-range
\* samples alone.
C15_UnaffectedByOutliers ==
    (Representative # <<>> /\ FewOutliers(Samples)) =>
        Representative = RegionPercentile(MidRange(Samples), self.percentile)

\* No outlier is left after the filter, the representative brightness is one
\* of the mid-range samples, and it is their own result when they are equal.
OutliersTrimmed(samples, mid, percentile) ==
    /\ \A k \in 1..Len(sorted_filtered) : ~IsOutlier(sorted_filtered[k])
    /\ Occurs(Representative[1], mid)
    /\ Uniform(mid, mid[1]) => Representative = RegionPercentile(mid, percentile)

\* C15, amended: when the samples of 0 number at most floor(0.05 n) and those
\* of 255 at most n - 1 - floor(0.95 n), the filter removes every outlier
\* and the representative brightness is one of the mid-range samples; it
\* equals the result for the mid-range samples alone when these share one
\* value.
C15_OutliersTrimmed ==
    (Representative # <<>> /\ FewOutliers(Samples)) =>
        OutliersTrimmed(Samples, MidRange(Samples), self.percentile)

\* C15 witness: a row with one 0 and one 255 among samples of 100 and 200
\* went through calculate_brightness_from_region with percentile 0, and a
\* mid-range value came back.
C15_Witness ==
    /\ pc = "region_return"
    /\ FewOutliers(Samples)
    /\ Cardinality(Below(Samples, 1)) = 1
    /\ Cardinality(Above(Samples, 254)) = 1
    /\ Occurs(100, Samples)
    /\ Occurs(200, Samples)
    /\ self.percentile = 0
    /\ brightness = <<100>>

\* The outlier filter has run in the current state: in the center-region
\* branch, or on a cropped region that had pixels.
FilterRan ==
    \/ center_box # <<>>
    \/ (crop_box # <<>> /\ Len(CropPixels(gray, crop_box)) > 0)

\* C16: if nothing is left after the 5th-95th percentile filter, the
\* percentile is taken over the unfiltered samples of the region instead, in
\* the face-region and in the center-region branch: the list read is the
\* sorted unfiltered list and a sample of the region comes back.
C16_EmptyFilterFallsBack ==
    (FilterRan /\ filtered_pixels = <<>>) =>
        /\ sorted_filtered = sorted(Samples)
        /\ raised = ""
        /\ Representative # <<>>
        /\ Occurs(Representative[1], Samples)

\* The filter of a region that has pixels always keeps one of them, so the
\* fallback of line 585-586 is never taken there.
RegionFilterNeverEmpty ==
    (center_box = <<>> /\ FilterRan) => filtered_pixels # <<>>

\* In the center-region branch the filter leaves nothing only when the
\* center box has no pixels; the fallback then restores the same empty list.
CenterFilterEmptyOnlyIfBoxEmpty ==
    (center_box # <<>> /\ filtered_pixels = <<>>) =>
        /\ CropPixels(gray, center_box) = <<>>
        /\ sorted_filtered = <<>>
        /\ raised = "IndexError"

\* C17: the estimator is stateless: a call with the image, face list and
\* configuration of the processor's first call returns the gain of that
\* first call, after any sequence of calls in between, and the fields of the
\* ImageProcessor are those it had in its first call.
C17_Stateless ==
    first_call # <<>> =>
        /\ self = first_call[1].fields
        /\ (/\ pc = "done"
            /\ gray = first_call[1].image
            /\ n_faces = first_call[1].faces
            /\ face_region = first_call[1].region) =>
               brightness_factor = first_call[1].gain

\* C17 witness: a later call, through the other branch than the first call,
\* has returned a gain different from the first call's.
C17_Witness ==
    /\ first_call # <<>>
    /\ pc = "done"
    /\ first_call[1].faces = 1
    /\ method_used = "center_region"
    /\ brightness_factor # first_call[1].gain

\* A name a configuration file can set: upper-case, no leading underscore,
\* an attribute of class Config.
Applicable(name) ==
    IsUpper(name) /\ ~StartsWithUnderscore(name) /\ name \in DOMAIN ConfigDefaults

Defines(module, name) == module # <<>> /\ name \in DOMAIN module[1]

\* local_config's value if it defines the name, else config_example's, else
\* the class default.
Precedence(name) ==
    IF Applicable(name) /\ Defines(local_config, name) THEN local_config[1][name]
    ELSE IF Applicable(name) /\ Defines(example_cfg, name) THEN example_cfg[1][name]
    ELSE ConfigDefaults[name]

\* C19 as stated: after _load_local_config every Config attribute has the
\* value given by the precedence local_config, config_example, class
\* default, and the attributes are those of the class.
C19_Precedence ==
    load_pc = "loaded" =>
        /\ DOMAIN Config = DOMAIN ConfigDefaults
        /\ \A name \in DOMAIN Config : Config[name] = Precedence(name)

\* C19, amended: after _load_local_config every Config attribute has the
\* value given by the precedence local_config, config_example, class
\* default, except that a store key for which that value is None has its
\* string of _STORE_DEFAULTS; only upper-case names without leading
\* underscore that exist on Config are applied, so the attributes are those
\* of the class.
C19_PrecedenceThenStoreDefault ==
    load_pc = "loaded" =>
        /\ DOMAIN Config = DOMAIN ConfigDefaults
        /\ \A name \in DOMAIN Config :
              Config[name] =
                 IF name \in StoreKeys /\ Precedence(name) = "None"
                 THEN STORE_DEFAULTS[name]
                 ELSE Precedence(name)

\* C19 witness: both files define STORE_NAME and TARGET_BRIGHTNESS, the
\* local file also a new name, a lower-case name and an underscore name;
\* the local values won.
C19_Witness ==
    /\ load_pc = "loaded"
    /\ Defines(example_cfg, "STORE_NAME")
    /\ Defines(example_cfg, "TARGET_BRIGHTNESS")
    /\ Defines(local_config, "NEW_SETTING")
    /\ Defines(local_config, "store_name")
    /\ Defines(local_config, "_PRIVATE")
    /\ Config["STORE_NAME"] = "local"
    /\ Config["TARGET_BRIGHTNESS"] = "local"
    /\ example_cfg[1]["STORE_NAME"] = "example"

\* C20: after _load_local_config every store key has a value other than
\* None, whichever of the two files exist and whatever they set.
C20_StoreKeysSet ==
    load_pc = "loaded" =>
        \A key \in StoreKeys : key \in DOMAIN Config /\ Config[key] # "None"

\* C20 witness: config_example is missing and local_config sets STORE_NAME to
\* None; the store key has its fallback string.
C20_Witness ==
    /\ load_pc = "loaded"
    /\ example_cfg = <<>>
    /\ Defines(local_config, "STORE_NAME")
    /\ local_config[1]["STORE_NAME"] = "None"
    /\ Config["STORE_NAME"] = "store default"

\* C18: a touch sets touch_detected only if it lasted less than
\* long_press_duration and no long press was detected during that touch, so
\* a touch held for long_press_duration or longer never sets it, under every
\* interleaving of the monitor thread and the long-press check thread.
C18_ShortPressOnly ==
    \A p \in printed :
        /\ p.duration < LONG_PRESS_DURATION
        /\ p.touch \notin long_detected

\* The half of C18 about the duration alone: line 200 runs only for a touch
\* the monitor measured as shorter than long_press_duration.
PrintedTouchesAreShort ==
    \A p \in printed : p.duration < LONG_PRESS_DURATION

\* The race behind the failure of C18: a touch released just under the
\* threshold (measured duration one second below it) is marked as a long
\* press by the check thread, whose clock reading came a moment later, and
\* triggers the print all the same.
ThresholdRace ==
    /\ printed = {[touch |-> 1, duration |-> LONG_PRESS_DURATION - 1]}
    /\ long_detected = {1}
    /\ now = LONG_PRESS_DURATION

\* The filter of n >= 1 samples, s being their sorted list: the 5th-percentile
\* value is at most the 95th-percentile value, the sample at the
\* 5th-percentile index was kept, and the list read afterwards is the sorted
\* filtered list, not the unfiltered one.
FilterKeepsSome(n, s) ==
    /\ s[((5 * n) \div 100) + 1] <= s[((95 * n) \div 100) + 1]
    /\ Occurs(s[((5 * n) \div 100) + 1], filtered_pixels)
    /\ Len(filtered_pixels) >= 1
    /\ sorted_filtered = sorted(filtered_pixels)

\* C24: for every non-empty sample list the set remaining after the
\* 5th-95th percentile filter is non-empty (p5 <= p95 and the sample at the
\* 5th-percentile index passes), so the fall-back to the unfiltered list is
\* never taken for a non-empty region.
C24_FilterNeverEmpty ==
    (FilterRan /\ Len(Samples) > 0) =>
        FilterKeepsSome(Len(Samples), sorted(Samples))

\* C24 witness: a row of 20 samples or more of which the filter removed some
\* and kept samples of one value only, the 5th- and 95th-percentile value.
C24_Witness ==
    /\ pc = "region_return"
    /\ Len(Samples) >= 20
    /\ Len(filtered_pixels) < Len(Samples)
    /\ Len(filtered_pixels) >= 1
    /\ Uniform(filtered_pixels, filtered_pixels[1])
    /\ Occurs(0, Samples)
    /\ Occurs(255, Samples)

\* The monitor has finished (or died in) the handling of touch t.
TouchClosed(t) ==
    \/ t < touches
    \/ (monitor_pc = "read_event" /\ finger = "up")
    \/ monitor_pc = "TypeError"

\* C25: every short tap sets touch_detected, under every interleaving with
\* the long-press check thread: once the monitor has handled the touch-up
\* of a touch that lasted less than long_press_duration, line 200 has run
\* for that touch.
C25_ShortTapTriggers ==
    \A t \in 1..Len(taps) :
        (/\ TouchClosed(t)
         /\ taps[t].duration # <<>>
         /\ taps[t].duration[1] < LONG_PRESS_DURATION) =>
            \E p \in printed : p.touch = t

\* The case C25 names: the second touch began while the check thread was at
\* exit_fullscreen (line 172) for the first, lines 174-175 cleared its
\* state, and its touch-up found nothing to measure.
StaleResetLosesTap ==
    /\ Len(taps) = 2
    /\ TouchClosed(2)
    /\ taps[2].duration = <<0>>
    /\ long_detected = {1}
    /\ printed = {}
    /\ monitor_pc = "read_event"
    /\ longpress_pc = "line166"

\* C26: the long-press check thread never computes a duration from an unset
\* start time: line 168 never reads None, the thread never dies.
C26_CheckThreadAlive == longpress_pc # "TypeError"

\* Line 196 has the same exposure to lines 174-175 of the check thread.
MonitorThreadAlive == monitor_pc # "TypeError"

\* ------------------------------------------- face detection unavailable
\* Processors as __init__ builds them: face detection requested or not,
\* OpenCV importable or not (lines 17-22), the cascade file loading, empty
\* or failing to load.
CascadeOutcomes == {"loaded", "empty", "raises"}

InitDetect ==
    /\ \E requested \in BOOLEAN, opencv \in BOOLEAN, cascade \in CascadeOutcomes :
          LET built == ImageProcessor_init(requested, opencv, cascade)
          IN  /\ self \in {MkConfig(200, << <<1, 2>>, <<3, 1>> >>, c, 30,
                                    built.use_face_detection) : c \in CenterWeights}
              /\ face_cascade = built.face_cascade
    /\ gray \in Images
    /\ CallEntry
    /\ first_call = <<>>
    /\ TouchInit
    /\ ConfigInit
    /\ PrinterInit
    /\ ToolInit

\* detect_faces called on the processor directly, before the estimate (as
\* show_face_debug_display does at line 462, and as any caller may).
DetectCall ==
    /\ pc = "start"
    /\ detect_call = <<>>
    /\ \E behaviour \in DetectorBehaviours :
          detect_call' =
              <<[behaviour |-> behaviour, direct |-> TRUE,
                 result |-> detect_faces(self.use_face_detection, face_cascade,
                                         behaviour)]>>
    /\ UNCHANGED <<self, face_cascade, gray, pc, n_faces, face_i, face_region,
                   crop_box, brightness, face_brightnesses, center_box,
                   subject_brightness, method_used, brightness_factor, raised,
                   filtered_pixels, sorted_filtered, first_call>>
    /\ UNCHANGED <<touchVars, configVars, printerVars, toolVars>>

NextDetect ==
    \/ DetectCall
    \/ DetectFaces
    \/ FaceRegion
    \/ FaceAverage
    \/ CenterRegion
    \/ ReturnFactor

SpecDetect == InitDetect /\ [][NextDetect]_vars

\* The latest call of detect_faces met one of the three conditions: face
\* detection disabled, no usable cascade, or the detector raised.
DetectionUnavailable ==
    /\ detect_call # <<>>
    /\ \/ ~self.use_face_detection
       \/ face_cascade # "loaded"
       \/ detect_call[1].behaviour[1] = "raises"

\* The estimate runs without detected faces: disabled, or the call of line
\* 614 met one of the three conditions.
EstimateWithoutDetection ==
    /\ pc \notin {"start", "region_call", "region_return"}
    /\ \/ ~self.use_face_detection
       \/ (DetectionUnavailable /\ ~detect_call[1].direct)

\* detect_faces returns an empty list and raises nothing in the three
\* conditions.
DetectReturnsEmpty ==
    DetectionUnavailable =>
        (detect_call[1].result.faces = 0 /\ detect_call[1].result.raised = "")

\* Without detection the estimate takes the center region: the face loop
\* never runs and a gain, when one is returned, is the center region's.
FallsBackToCenter ==
    EstimateWithoutDetection =>
        /\ pc \in {"center", "factor", "done", "raised"}
        /\ n_faces = 0
        /\ pc \in {"factor", "done"} => method_used = "center_region"

\* C23: detect_faces returns an empty list, and never raises, whenever face
\* detection is disabled, the cascade is missing or the detector throws; the
\* exposure estimate then falls back to the center region and does not fail.
C23_DetectFallsBack ==
    /\ DetectReturnsEmpty
    /\ FallsBackToCenter
    /\ EstimateWithoutDetection => raised = ""

\* The three conditions each reach a returned gain from the center region.
DetectorRaisedThenCenter ==
    /\ pc = "done" /\ method_used = "center_region"
    /\ detect_call # <<>> /\ ~detect_call[1].direct
    /\ detect_call[1].behaviour[1] = "raises"
    /\ detect_call[1].result.entered = "except"

CascadeEmptyThenCenter ==
    /\ pc = "done" /\ method_used = "center_region"
    /\ face_cascade = "empty" /\ detect_call # <<>>
    /\ detect_call[1].result.entered = "guard"

\* ---------------------------------------------------------- ReceiptPrinter
\* Largest number of receipts of one run.
MaxReceipts == 3

\* Files handed to print_receipt.
ImagePaths == {"photo_a.png", "photo_b.png"}

\* Lines 726-757: the printer commands of each part, in the order the
\* method issues them.
PartCommands(part, path) ==
    CASE part = "header" ->
            << <<"set", "center">>, <<"image", "top_dotted_line">>,
               <<"image", "top_dotted_line_2">>, <<"set", "center bold 2x2">>,
               <<"text", "STORE_NAME">>, <<"set", "center 1x1">>,
               <<"text", "STORE_SUBTITLE">>, <<"text", "STORE_LOCATION">>,
               <<"text", "STORE_SOCIAL">>, <<"image", "bottom_dotted_line_2">>,
               <<"image", "bottom_dotted_line">> >>
      [] part = "image" -> << <<"image", path>> >>
      [] part = "qr" -> << <<"qr", "STORE_QR_URL">> >>
      [] part = "footer" -> << <<"text", "FOOTER_MESSAGE">> >>
      [] part = "cut" -> << <<"cut", "">> >>

\* Variant of print_receipt that cuts before the footer.
print_receipt_CutBeforeFooter == <<"header", "image", "qr", "cut", "footer">>

\* print_receipt (lines 759-765): the methods it calls, in order.
print_receipt == <<"header", "image", "qr", "footer", "cut">>

\* The first k commands of a part reach the printer; a k short of the part
\* means the k+1st command raised (USB error, unreadable image file), and
\* the exception leaves print_receipt, which catches nothing.
EmitPart(part) ==
    /\ receipt_step \in 1..Len(print_receipt)
    /\ print_receipt[receipt_step] = part
    /\ ~printer_raised
    /\ LET cmds == PartCommands(part, image_path)
       IN  \E k \in 0..Len(cmds) :
              /\ paper' = paper \o
                    [i \in 1..k |-> [receipt |-> receipts, part |-> part,
                                     cmd |-> cmds[i]]]
              /\ IF k = Len(cmds)
                 THEN /\ receipt_step' = receipt_step + 1
                      /\ UNCHANGED printer_raised
                 ELSE /\ printer_raised' = TRUE
                      /\ UNCHANGED receipt_step
    /\ UNCHANGED <<receipts, image_path>>
    /\ UNCHANGED <<estimatorVars, touchVars, configVars, toolVars>>

\* Lines 726-741.
print_header == EmitPart("header")

\* Lines 743-745.
print_image == EmitPart("image")

\* Lines 747-749.
print_qr_code == EmitPart("qr")

\* Lines 751-753.
print_footer == EmitPart("footer")

\* Lines 755-757.
cut == EmitPart("cut")

\* Lines 845-856 of run: a trigger is seen, the photo is captured and
\* processed, and print_receipt is called with its path.
RunPrint ==
    /\ receipt_step = 0
    /\ ~printer_raised
    /\ receipts < MaxReceipts
    /\ receipts' = receipts + 1
    /\ \E path \in ImagePaths : image_path' = path
    /\ receipt_step' = 1
    /\ UNCHANGED <<paper, printer_raised>>
    /\ UNCHANGED <<estimatorVars, touchVars, configVars, toolVars>>

\* Lines 858-861 of run: print_receipt has returned, the flags are reset and
\* the loop goes round.  After an exception the loop is left (lines 863-866).
RunReset ==
    /\ receipt_step = Len(print_receipt) + 1
    /\ receipt_step' = 0
    /\ UNCHANGED <<paper, receipts, image_path, printer_raised>>
    /\ UNCHANGED <<estimatorVars, touchVars, configVars, toolVars>>

InitReceipt ==
    /\ EstimatorIdle
    /\ TouchInit
    /\ ConfigInit
    /\ PrinterInit
    /\ ToolInit

NextReceipt ==
    \/ RunPrint
    \/ print_header
    \/ print_image
    \/ print_qr_code
    \/ print_footer
    \/ cut
    \/ RunReset

SpecReceipt == InitReceipt /\ [][NextReceipt]_vars

\* The commands of receipt r on the paper, and their parts, in order.
ReceiptCommands(r) == SelectSeq(paper, LAMBDA c : c.receipt = r)

\* The order of the parts of a receipt.
PartRank(part) ==
    CASE part = "header" -> 1 [] part = "image" -> 2 [] part = "qr" -> 3
      [] part = "footer" -> 4 [] part = "cut" -> 5

IsCut(c) == c.cmd[1] = "cut"

Cuts(r) == {i \in 1..Len(paper) : paper[i].receipt = r /\ IsCut(paper[i])}

\* print_receipt has returned for receipt r.
ReceiptReturned(r) ==
    \/ r < receipts
    \/ (r = receipts /\ receipt_step \notin 1..Len(print_receipt)
                     /\ ~printer_raised)

\* Parts in the order header, image, QR code, footer, cut: the part of a
\* command never ranks below the part of an earlier command of its receipt;
\* and a returned receipt has all five parts, with the photo it was given.
PartsInOrder(r) ==
    LET cs == ReceiptCommands(r)
    IN  /\ \A i, j \in 1..Len(cs) :
              i < j => PartRank(cs[i].part) <= PartRank(cs[j].part)
        /\ ReceiptReturned(r) =>
              \A part \in {"header", "image", "qr", "footer", "cut"} :
                  \E i \in 1..Len(cs) : cs[i].part = part

\* One cut per returned receipt, never more than one, and nothing of the
\* receipt after it.
CutOnceAndLast(r) ==
    LET cs == ReceiptCommands(r)
    IN  /\ Cardinality(Cuts(r)) <= 1
        /\ ReceiptReturned(r) => Cardinality(Cuts(r)) = 1
        /\ \A i \in 1..Len(cs) : IsCut(cs[i]) => i = Len(cs)

\* Nothing of a later receipt before the cut of an earlier one.
ReceiptsSeparated ==
    \A i, j \in 1..Len(paper) :
        (i < j /\ paper[i].receipt # paper[j].receipt) =>
            /\ paper[i].receipt < paper[j].receipt
            /\ \E k \in Cuts(paper[i].receipt) : k < j

\* C22: print_receipt emits header, photo image, QR code, footer, cut in
\* that order; the cut is issued exactly once per receipt and is its last
\* printer command; no part of a later receipt is emitted before the cut of
\* the previous one.
C22_ReceiptOrder ==
    /\ \A r \in 1..receipts : PartsInOrder(r) /\ CutOnceAndLast(r)
    /\ ReceiptsSeparated

\* Three receipts printed in full, of different photos, one after another.
C22_Witness ==
    /\ receipts = MaxReceipts
    /\ receipt_step > Len(print_receipt)
    /\ \A r \in 1..receipts : Len(ReceiptCommands(r)) = 15
    /\ \E i, j \in 1..Len(paper) : paper[i].cmd # paper[j].cmd
                                    /\ paper[i].part = "image"
                                    /\ paper[j].part = "image"

\* ------------------------------------------------- print_sample_images.py
\* Largest number of samples one run prints (--num).
MaxSelected == 2

\* The image files of the images directory.
SampleFiles == {"images/a.png", "images/b.jpg", "images/c.png"}

\* Every file name of the model: the images and names of the temporary
\* directory.
FileNames == SampleFiles \cup {"tmp/tmp1", "tmp/tmp2"}

\* What a camera or an earlier run left in an image file.
RawContent(name) == [photo |-> name, mode |-> "RGB"]

\* Lines 61-71: the selected paths, distinct, in random order.
Selections ==
    {sel \in UNION {[1..n -> SampleFiles] : n \in 0..MaxSelected} :
        \A i, j \in 1..Len(sel) : i # j => sel[i] # sel[j]}

\* process_image (main.py lines 681-713) on the file at a path: it opens the
\* file, computes the gain and converts, then saves over the same path.  It
\* fails before the save (unreadable file, an error of the estimator), in
\* the save (the file is left truncated), or not at all.
ProcessOutcomes == {"raises", "save fails", "saved"}

process_image(fs, path, outcome) ==
    CASE fs[path] = <<>> \/ outcome = "raises" -> fs
      [] outcome = "save fails" ->
            [fs EXCEPT ![path] = <<[photo |-> fs[path][1].photo,
                                    mode |-> "truncated"]>>]
      [] OTHER ->
            [fs EXCEPT ![path] = <<[photo |-> fs[path][1].photo,
                                    mode |-> "1"]>>]

ProcessRaised(fs, path, outcome) == fs[path] = <<>> \/ outcome # "saved"

\* The tool at line 100, about to loop over the samples it selected.
InitTool ==
    /\ files = [n \in FileNames |->
                   IF n \in SampleFiles THEN <<RawContent(n)>> ELSE <<>>]
    /\ originals = files
    /\ sample_paths \in Selections
    /\ tool_pc = "loop"
    /\ tmp = ""
    /\ EstimatorIdle
    /\ TouchInit
    /\ ConfigInit
    /\ PrinterInit

\* Variant of ToolMkstemp that works on the sample itself.
ToolMkstemp_InPlace ==
    /\ tool_pc = "loop"
    /\ sample_paths # <<>>
    /\ tmp' = sample_paths[1]
    /\ tool_pc' = "copy"
    /\ UNCHANGED <<files, originals, sample_paths>>
    /\ UNCHANGED <<estimatorVars, touchVars, configVars, printerVars>>

\* Lines 100-102: the next sample; mkstemp creates an empty file under a
\* name that did not exist (O_EXCL), or raises before the try block.
ToolMkstemp ==
    /\ tool_pc = "loop"
    /\ sample_paths # <<>>
    /\ \/ \E t \in FileNames :
             /\ files[t] = <<>>
             /\ files' = [files EXCEPT ![t] = <<[photo |-> "", mode |-> "empty"]>>]
             /\ tmp' = t
             /\ tool_pc' = "copy"
       \/ /\ tool_pc' = "raised"
          /\ UNCHANGED <<files, tmp>>
    /\ UNCHANGED <<originals, sample_paths>>
    /\ UNCHANGED <<estimatorVars, touchVars, configVars, printerVars>>

\* Lines 104-105: shutil.copy2(path, tmp) reads the sample and writes the
\* temporary file, or raises with the temporary file as it was.
ToolCopy ==
    /\ tool_pc = "copy"
    /\ \/ /\ files[sample_paths[1]] # <<>>
          /\ files' = [files EXCEPT ![tmp] = files[sample_paths[1]]]
          /\ tool_pc' = "process"
       \/ /\ tool_pc' = "finally"
          /\ UNCHANGED files
    /\ UNCHANGED <<originals, sample_paths, tmp>>
    /\ UNCHANGED <<estimatorVars, touchVars, configVars, printerVars>>

\* Line 106: processor.process_image(tmp).
ToolProcess ==
    /\ tool_pc = "process"
    /\ \E outcome \in ProcessOutcomes :
          /\ files' = process_image(files, tmp, outcome)
          /\ tool_pc' = IF ProcessRaised(files, tmp, outcome)
                        THEN "finally" ELSE "print"
    /\ UNCHANGED <<originals, sample_paths, tmp>>
    /\ UNCHANGED <<estimatorVars, touchVars, configVars, printerVars>>

\* Line 107: receipt_printer.print_receipt(tmp) is entered.
ToolPrint ==
    /\ tool_pc = "print"
    /\ receipt_step = 0
    /\ receipts' = receipts + 1
    /\ image_path' = tmp
    /\ receipt_step' = 1
    /\ tool_pc' = "printing"
    /\ UNCHANGED <<paper, printer_raised>>
    /\ UNCHANGED <<files, originals, sample_paths, tmp>>
    /\ UNCHANGED <<estimatorVars, touchVars, configVars>>

\* Lines 108-112: the finally block, entered when print_receipt returned or
\* when anything in the try block raised.  os.unlink removes the temporary
\* file, or fails with OSError, which is ignored.  A pending exception then
\* leaves main(); otherwise the loop takes the next sample.
ToolFinally ==
    /\ \/ tool_pc = "finally"
       \/ (tool_pc = "printing" /\ (printer_raised \/ receipt_step > Len(print_receipt)))
    /\ \/ files' = [files EXCEPT ![tmp] = <<>>]
       \/ UNCHANGED files
    /\ IF tool_pc = "finally" \/ printer_raised
       THEN /\ tool_pc' = "raised"
            /\ UNCHANGED <<sample_paths, receipt_step>>
       ELSE /\ tool_pc' = "loop"
            /\ sample_paths' = Tail(sample_paths)
            /\ receipt_step' = 0
    /\ UNCHANGED <<originals, tmp>>
    /\ UNCHANGED <<paper, receipts, image_path, printer_raised>>
    /\ UNCHANGED <<estimatorVars, touchVars, configVars>>

\* Line 114: every sample done.
ToolDone ==
    /\ tool_pc = "loop"
    /\ sample_paths = <<>>
    /\ tool_pc' = "done"
    /\ UNCHANGED <<files, originals, sample_paths, tmp>>
    /\ UNCHANGED <<estimatorVars, touchVars, configVars, printerVars>>

NextTool ==
    \/ ToolMkstemp
    \/ ToolCopy
    \/ ToolProcess
    \/ ToolPrint
    \/ print_header
    \/ print_image
    \/ print_qr_code
    \/ print_footer
    \/ cut
    \/ ToolFinally
    \/ ToolDone

SpecTool == InitTool /\ [][NextTool]_vars

\* The files that existed when the tool started.
OriginalNames == {n \in DOMAIN originals : originals[n] # <<>>}

\* No original differs from what it was when the tool started.
OriginalsUnchanged == \A n \in OriginalNames : files[n] = originals[n]

\* The file under processing or printing is not an original, and the
\* printer was never handed an original.
WorksOnCopy ==
    /\ tool_pc \in {"copy", "process", "print", "printing", "finally"} =>
          tmp \notin OriginalNames
    /\ \A i \in 1..Len(paper) :
          paper[i].part = "image" => paper[i].cmd[2] \notin OriginalNames

\* C21: the sample tool never modifies an original image: processing and
\* printing work on a temporary copy only, and every original has the
\* content it had before the run, at every point of the run, also when
\* processing or printing fails.
C21_OriginalsNeverModified == OriginalsUnchanged /\ WorksOnCopy

\* A run that printed its first sample from a processed copy and died in
\* the printing of the second, whose temporary file could not be removed.
C21_Witness ==
    /\ tool_pc = "raised"
    /\ printer_raised
    /\ receipts = 2
    /\ \E i \in 1..Len(paper) : paper[i].receipt = 1 /\ paper[i].part = "cut"
    /\ files[tmp] # <<>> /\ files[tmp][1].mode = "1"

====
